---- MODULE Spec2Model ----
(***************************************************************************)
(* Agent-runtime core of qt-chatbot-agent: the Session Client (LLMClient)  *)
(* and the Tool Registry & Dispatcher (MCPHandler with its SSEClient).     *)
(*                                                                         *)
(* Every Qt slot, timer callback and public operation is one action.  A    *)
(* signal emission is a direct (synchronous) call of the connected slots,  *)
(* so everything a handler emits, posts or schedules is recorded, in       *)
(* program order, in the per-handler effect list of the component.         *)
(***************************************************************************)
EXTENDS Integers, Sequences, FiniteSets, TLC

\* ------------------------------------------------------------------ bounds
MaxCalls == 2        \* host calls of sendPrompt / sendPromptWithTools
MaxChunks == 1       \* streamed lines delivered on one reply
MaxRetriesCfg == 3   \* largest configured m_maxRetries explored
MaxToolCalls == 3    \* host calls of executeToolCall
MaxSseEvents == 2    \* events delivered on SSE streams
MaxSseLines == 4     \* lines of one SSE byte stream
MaxSseBytes == 32    \* bytes delivered by one read (no stream is longer)
MaxTextLen == 5      \* characters of a document handed to chunkText
MaxChunkSize == 3    \* largest m_chunkSize explored
MaxChunkOverlap == 3 \* largest m_chunkOverlap explored
MaxWindows == 6      \* loop iterations of chunkText followed
MaxIngests == 2      \* host calls of ingestDocument
MaxQueries == 1      \* host calls of retrieveContext
MaxRun == 12         \* longest run of one character in an estimated text
MaxTabs == 2         \* tab characters in an estimated text
MaxHistory == 3      \* messages of a history handed to pruning
MaxRegistrations == 2 \* registerTool calls followed
MaxClears == 1       \* clearNetworkedTools calls followed
MaxDiscoveries == 1  \* discoverAndRegisterServerTools calls followed
MaxListedTools == 2  \* entries of a tools/list answer
MaxDeclaredTools == 3 \* tools registered before a response is searched for a call
MaxSessionChunks == 2 \* streamed lines delivered on one reply of a followed session
MaxToolResults == 1  \* host calls of sendToolResults
MaxSessionCalls == 1 \* prompts a followed session sends
MaxHistoryClears == 1 \* host calls of clearConversationHistory
MaxDocumentClears == 1 \* host calls of clearDocuments

\* ------------------------------------------------------- program constants
DefaultMaxRetries == 3
DefaultRetryDelay == 1000
RequestTimeoutMs == 90000
SentenceBreakWindow == 100
DiscoveryTimeoutMs == 5000

VARIABLES
    \* ---- LLMClient members (src/include/LLMClient.h:97-131)
    m_networkManager,        \* BOOLEAN: the QNetworkAccessManager exists
    m_apiUrlValid,           \* QUrl(m_apiUrl).isValid()
    m_capabilitiesDetected,
    m_toolCallFormat,        \* "native" | "prompt" | "unknown"
    m_pendingRequests,       \* sequence of PendingRequest
    m_currentReply,          \* id of the reply m_currentReply points to, 0 = nullptr
    m_streamBuffer,          \* the unterminated last line, NoLine when empty
    m_fullResponse,          \* sequence of tokens
    m_maxRetries,
    m_retryDelay,
    m_currentRetryCount,
    m_lastRequestData,       \* payload, NoData when empty
    m_currentTools,
    m_toolsEnabled,
    m_nativeToolCallEmitted,
    m_messageHistory,
    m_currentPrompt,
    m_model,
    \* ---- the event loop and the network as LLMClient sees them
    net,                     \* the QNetworkReply objects alive and running
    nextReply,               \* id of the next reply the manager creates
    retryTimers,             \* armed QTimer::singleShot(delay, retryRequest)
    initTimer,               \* the constructor's singleShot(0) is still armed
    effects,                 \* what the last LLMClient handler emitted/posted/armed
    \* ---- bookkeeping of the host's calls (not program state)
    callCount,               \* host calls made so far
    issued,                  \* call number -> times it went past the queue gate
    lastCall,                \* the call whose payload m_lastRequestData holds
    resends,                 \* call number -> times retryRequest re-posted its payload
    probeResult,             \* how the /api/show exchange ended, "none" before
    detectedFor,             \* the model named in the probe that set m_toolCallFormat
    historyClears,           \* host calls of clearConversationHistory so far
    toolResultsSent,         \* host calls of sendToolResults so far
    retryFor                 \* per pending retry timer: the exchange whose failure armed it

llmVars == <<m_networkManager, m_apiUrlValid, m_capabilitiesDetected, m_toolCallFormat,
             m_pendingRequests, m_currentReply, m_streamBuffer, m_fullResponse,
             m_maxRetries, m_retryDelay, m_currentRetryCount, m_lastRequestData,
             m_currentTools, m_toolsEnabled, m_nativeToolCallEmitted, m_messageHistory,
             m_currentPrompt, net, nextReply, retryTimers, initTimer, effects,
             callCount, issued, lastCall, resends, probeResult, m_model, detectedFor,
             historyClears, toolResultsSent, retryFor>>

VARIABLES
    \* ---- MCPHandler members (src/include/MCPHandler.h)
    mcpNetworkManager,       \* BOOLEAN: MCPHandler::m_networkManager exists
    mcpInitTimer,            \* the constructor's singleShot(0) is still armed
    m_tools,                 \* tool name -> MCPTool, NoTool when not registered
    m_pendingCalls,          \* reply key -> "id:name", NoInfo when absent
    m_sseClients,            \* tool name -> SSEClient object, NoClient when absent
    m_sseToolCalls,          \* client (by tool name) -> "id:name", NoInfo when absent
    m_toolCallCounter,
    \* ---- the network as MCPHandler sees it
    httpReplies,             \* the tools/call replies in flight
    nextHttpReply,
    sseDelivered,            \* events delivered so far on SSE streams
    crashed,                 \* the process died on a null m_currentReply
    \* ---- bookkeeping of the host's calls and of what was reported
    returnedCalls,               \* the executeToolCall invocations that returned
    invocations,             \* executeToolCall invocations entered so far
    reports,                 \* toolCallCompleted / toolCallFailed, in emission order
    sseCloses,               \* the SSE streams that ended, and what each end reported
    registerCalls,           \* registerTool calls followed: argument, result, registry
    discovery,               \* the discoverAndRegisterServerTools call in progress
    registryCalls,           \* clearNetworkedTools / discovery calls that returned
    \* ---- SSEClient decoder members (src/include/SSEClient.h:108-118)
    m_buffer,
    m_currentEventType,
    m_currentEventId,
    m_currentData,
    m_currentRetry,
    m_lastEventId,
    \* ---- the byte stream of one connection and what was decoded from it
    sseStream,               \* the bytes the server sends before the stream ends
    ssePos,                  \* bytes read so far
    sseOpen,                 \* the reply of the stream exists (m_currentReply)
    sseEvents,               \* eventReceived emissions, in order
    splitInBlock,            \* some read ended inside a block
    \* ---- RAGEngine::chunkText: configuration, locals and position in the code
    m_chunkSize,
    m_chunkOverlap,
    chunkPc,                 \* "idle" | "loop" | "returned"
    chunkInput,              \* the text argument
    position,
    chunkIndex,
    chunks,                  \* the QStringList being built
    windows,                 \* the windows taken so far: position, chunkEnd, trimmed text
    \* ---- RAGEngine members (src/include/RAGEngine.h:92-106)
    m_chunks,
    m_documents,
    m_embeddings,
    m_index,                 \* whether the index exists, and the vectors added, in order
    m_embeddingDimension,
    m_pendingEmbeddings,
    \* ---- the embedding endpoint and the signals of the engine
    haveFaiss,               \* the build defines HAVE_FAISS
    ragReplies,              \* embedding requests in flight
    nextRagReply,
    ragSignals,              \* signals emitted, in order
    ragQueries,              \* the retrieveContext calls made, in order
    clearedAt,               \* nextRagReply at each clearDocuments call, in order
    \* ---- one application of a function of the session client
    fnName,                  \* "none" or the name of the function applied
    fnArgs,                  \* its arguments and the configuration it reads
    fnResult                 \* what it returned, NotReturned before

mcpVars == <<mcpNetworkManager, mcpInitTimer, m_tools, m_pendingCalls, m_sseClients,
             m_sseToolCalls, m_toolCallCounter, httpReplies, nextHttpReply, sseDelivered,
             crashed, returnedCalls, invocations, reports, sseCloses, registerCalls,
             discovery, registryCalls>>

sseVars == <<m_buffer, m_currentEventType, m_currentEventId, m_currentData,
             m_currentRetry, m_lastEventId, sseStream, ssePos, sseOpen, sseEvents,
             splitInBlock>>

chunkVars == <<m_chunkSize, m_chunkOverlap, chunkPc, chunkInput, position, chunkIndex,
               chunks, windows>>

ragVars == <<m_documents, m_embeddings, m_index, m_embeddingDimension,
             m_pendingEmbeddings, haveFaiss, ragReplies, nextRagReply, ragSignals,
             ragQueries, clearedAt>>

fnVars == <<fnName, fnArgs, fnResult>>

vars == <<llmVars, mcpVars, sseVars, chunkVars, m_chunks, ragVars, fnVars>>

\* ------------------------------------------------------------ value spaces
NoData == [shape |-> "none"]
NoLine == ""
Prompts == {"", "p1", "p2"}
Contexts == {""}
ToolSets == {<<>>, <<"calculator">>}
\* Config::instance().getModel() at construction, and the models a host can select
ConfiguredModel == "m1"
Models == {"m1", "m2"}

\* The LLMClient object as one record, so that a handler's calls compose.
LLM ==
    [m_networkManager |-> m_networkManager, m_apiUrlValid |-> m_apiUrlValid,
     m_capabilitiesDetected |-> m_capabilitiesDetected,
     m_toolCallFormat |-> m_toolCallFormat, m_pendingRequests |-> m_pendingRequests,
     m_currentReply |-> m_currentReply, m_streamBuffer |-> m_streamBuffer,
     m_fullResponse |-> m_fullResponse, m_maxRetries |-> m_maxRetries,
     m_retryDelay |-> m_retryDelay, m_currentRetryCount |-> m_currentRetryCount,
     m_lastRequestData |-> m_lastRequestData, m_currentTools |-> m_currentTools,
     m_toolsEnabled |-> m_toolsEnabled,
     m_nativeToolCallEmitted |-> m_nativeToolCallEmitted,
     m_messageHistory |-> m_messageHistory, m_currentPrompt |-> m_currentPrompt,
     net |-> net, nextReply |-> nextReply, retryTimers |-> retryTimers,
     initTimer |-> initTimer, effects |-> <<>>, callCount |-> callCount,
     issued |-> issued, lastCall |-> lastCall, resends |-> resends,
     probeResult |-> probeResult, m_model |-> m_model, detectedFor |-> detectedFor,
     historyClears |-> historyClears, toolResultsSent |-> toolResultsSent,
     retryFor |-> retryFor]

SetLLM(s) ==
    /\ m_networkManager' = s.m_networkManager
    /\ m_apiUrlValid' = s.m_apiUrlValid
    /\ m_capabilitiesDetected' = s.m_capabilitiesDetected
    /\ m_toolCallFormat' = s.m_toolCallFormat
    /\ m_pendingRequests' = s.m_pendingRequests
    /\ m_currentReply' = s.m_currentReply
    /\ m_streamBuffer' = s.m_streamBuffer
    /\ m_fullResponse' = s.m_fullResponse
    /\ m_maxRetries' = s.m_maxRetries
    /\ m_retryDelay' = s.m_retryDelay
    /\ m_currentRetryCount' = s.m_currentRetryCount
    /\ m_lastRequestData' = s.m_lastRequestData
    /\ m_currentTools' = s.m_currentTools
    /\ m_toolsEnabled' = s.m_toolsEnabled
    /\ m_nativeToolCallEmitted' = s.m_nativeToolCallEmitted
    /\ m_messageHistory' = s.m_messageHistory
    /\ m_currentPrompt' = s.m_currentPrompt
    /\ net' = s.net
    /\ nextReply' = s.nextReply
    /\ retryTimers' = s.retryTimers
    /\ initTimer' = s.initTimer
    /\ effects' = s.effects
    /\ callCount' = s.callCount
    /\ issued' = s.issued
    /\ lastCall' = s.lastCall
    /\ resends' = s.resends
    /\ probeResult' = s.probeResult
    /\ m_model' = s.m_model
    /\ detectedFor' = s.detectedFor
    /\ historyClears' = s.historyClears
    /\ toolResultsSent' = s.toolResultsSent
    /\ retryFor' = s.retryFor
    /\ UNCHANGED <<mcpVars, sseVars, chunkVars, m_chunks, ragVars, fnVars>>

\* One effect of a handler: a signal emitted, a request posted, a timer armed.
\* `about` is bookkeeping: the reply whose exchange an emitted signal reports on,
\* 0 when the signal is not about an exchange.
Effect(what, name, arg, call) ==
    [what |-> what, name |-> name, arg |-> arg, call |-> call, about |-> 0]
Emit(s, name, arg) == [s EXCEPT !.effects = Append(@, Effect("emit", name, arg, 0))]
EmitAbout(s, name, arg, reply) ==
    [s EXCEPT !.effects = Append(@, [Effect("emit", name, arg, 0) EXCEPT !.about = reply])]
Post(s, endpoint, data, call) ==
    [s EXCEPT !.effects = Append(@, Effect("post", endpoint, data, call))]
Arm(s, slot, delay) == [s EXCEPT !.effects = Append(@, Effect("timer", slot, delay, 0))]

\* ------------------------------------------------------------------- texts
\* A text is a sequence of pieces; a piece is one of the literals below.
StrLen(piece) ==
    CASE piece = "" -> 0
      [] piece = "p1" -> 2
      [] piece = "p2" -> 2
      [] piece = "ctx" -> 3
      [] piece = "txt" -> 3
      [] piece = "Context: " -> 9
      [] piece = "\n\nPrompt: " -> 10
      [] piece = "{\"tool_call\": {\"name\": \"calculator\", \"parameters\": {}}}" -> 55
      [] OTHER -> 1
\* text.count(' ') + text.count('\n') of a piece
StrSpaces(piece) ==
    CASE piece = " " -> 1
      [] piece = "\n" -> 1
      [] piece = "Context: " -> 1
      [] piece = "\n\nPrompt: " -> 3
      [] piece = "{\"tool_call\": {\"name\": \"calculator\", \"parameters\": {}}}" -> 4
      [] OTHER -> 0

RECURSIVE CharCount(_)
CharCount(text) == IF text = <<>> THEN 0 ELSE StrLen(Head(text)) + CharCount(Tail(text))
RECURSIVE SpaceCount(_)
SpaceCount(text) ==
    IF text = <<>> THEN 0 ELSE StrSpaces(Head(text)) + SpaceCount(Tail(text))

\* QString("Context: %1\n\nPrompt: %2").arg(context, prompt), LLMClient.cpp:87-91
FullPrompt(prompt, context) ==
    IF context = "" THEN <<prompt>> ELSE <<"Context: ", context, "\n\nPrompt: ", prompt>>

\* ----------------------------------------------- context-window budgeting
ContextWindowSize == 4096
SystemPromptChars == 136
SystemPromptSpaces == 21
ToolsOverheadTokens == 200
MessageOverheadTokens == 20

\* the estimate that rounds the character quarter up
TokensOfRoundedUp(chars, spaces) ==
    IF chars = 0 THEN 0 ELSE ((chars + 3) \div 4) + (spaces \div 10)

TokensOf(chars, spaces) == IF chars = 0 THEN 0 ELSE (chars \div 4) + (spaces \div 10)
estimateTokens(text) == TokensOf(CharCount(text), SpaceCount(text))

\* the backward loop when it passes over a message that does not fit
RECURSIVE PruneWalkSkipping(_, _, _, _)
PruneWalkSkipping(hist, i, usedTokens, remainingTokens) ==
    IF i = 0 THEN <<>>
    ELSE LET msgTokens == estimateTokens(hist[i].content) + MessageOverheadTokens
         IN  IF usedTokens + msgTokens > remainingTokens
             THEN PruneWalkSkipping(hist, i - 1, usedTokens, remainingTokens)
             ELSE Append(PruneWalkSkipping(hist, i - 1, usedTokens + msgTokens,
                                           remainingTokens),
                         hist[i])

RECURSIVE PruneWalk(_, _, _, _)
PruneWalk(hist, i, usedTokens, remainingTokens) ==
    IF i = 0 THEN <<>>
    ELSE LET msgTokens == estimateTokens(hist[i].content) + MessageOverheadTokens
         IN  IF usedTokens + msgTokens > remainingTokens THEN <<>>
             ELSE Append(PruneWalk(hist, i - 1, usedTokens + msgTokens, remainingTokens),
                         hist[i])

\* the body of pruneMessageHistoryForContext for a configured window size, the
\* estimate of the configured system prompt and a history
PruneHistory(contextWindowSize, systemPromptTokens, history, currentUserMessage) ==
    LET maxInputTokens == (contextWindowSize * 8) \div 10
        remainingTokens == maxInputTokens - systemPromptTokens
                           - estimateTokens(currentUserMessage) - ToolsOverheadTokens
    IN  IF remainingTokens <= 0 THEN <<>>
        ELSE PruneWalk(history, Len(history), 0, remainingTokens)

pruneMessageHistoryForContext(s, currentUserMessage) ==
    PruneHistory(ContextWindowSize, TokensOf(SystemPromptChars, SystemPromptSpaces),
                 s.m_messageHistory, currentUserMessage)

\* -------------------------------------------------------- request builders
Message(role, content, toolCalls) ==
    [role |-> role, content |-> content, tool_calls |-> toolCalls]

buildOllamaRequest(prompt) ==
    [shape |-> "generate", prompt |-> prompt, tools |-> <<>>, messages |-> <<>>]

buildOllamaRequestWithTools(prompt, tools) ==
    [shape |-> "injected", prompt |-> prompt, tools |-> tools, messages |-> <<>>]

buildNativeToolRequest(s, prompt, tools) ==
    [shape |-> "native", prompt |-> prompt, tools |-> tools,
     messages |-> Append(pruneMessageHistoryForContext(s, prompt),
                         Message("user", prompt, FALSE))]

\* ---------------------------------------------------------------- sending
\* `tokens` and `toolCalls` are bookkeeping: the tokens emitted as tokenReceived
\* and the tool calls detected while this reply was the current one
NewReply(id, endpoint, data) ==
    [id |-> id, endpoint |-> endpoint, data |-> data, unread |-> <<>>, delivered |-> 0,
     timeout |-> endpoint # "show", tokens |-> <<>>, toolCalls |-> 0]

\* bookkeeping on the reply m_currentReply points to
NoteToken(s, token) ==
    [s EXCEPT !.net = {IF r.id = s.m_currentReply THEN [r EXCEPT !.tokens = Append(@, token)]
                       ELSE r : r \in @}]
NoteToolCall(s) ==
    [s EXCEPT !.net = {IF r.id = s.m_currentReply THEN [r EXCEPT !.toolCalls = @ + 1]
                       ELSE r : r \in @}]

SendEndpoint(s) ==
    IF s.m_toolsEnabled /\ s.m_toolCallFormat = "native" THEN "chat" ELSE "generate"

sendRequest(s, jsonData, call) ==
    IF ~s.m_networkManager
    THEN Emit(s, "errorOccurred", "Network manager not initialized yet")
    ELSE IF ~s.m_apiUrlValid
    THEN Emit(s, "errorOccurred", "Invalid API URL")
    ELSE LET id == s.nextReply
             s1 == [s EXCEPT !.m_lastRequestData = jsonData,
                             !.lastCall = call,
                             !.m_streamBuffer = NoLine,
                             !.m_fullResponse = <<>>,
                             !.m_nativeToolCallEmitted = FALSE,
                             !.m_currentReply = id,
                             !.net = @ \cup {NewReply(id, SendEndpoint(s), jsonData)},
                             !.nextReply = id + 1]
         IN  Arm(Post(s1, SendEndpoint(s), jsonData, call), "timeout", RequestTimeoutMs)

PendingRequest(prompt, tools, context, withTools, call) ==
    [prompt |-> prompt, tools |-> tools, context |-> context, withTools |-> withTools,
     call |-> call]

sendPrompt(s, prompt, context, call) ==
    IF prompt = "" THEN Emit(s, "errorOccurred", "Prompt cannot be empty")
    ELSE IF ~s.m_capabilitiesDetected
    THEN [s EXCEPT !.m_pendingRequests =
                       Append(@, PendingRequest(prompt, <<>>, context, FALSE, call))]
    ELSE LET s1 == [s EXCEPT !.m_currentRetryCount = 0,
                             !.m_toolsEnabled = FALSE,
                             !.m_currentTools = <<>>,
                             !.issued[call] = @ + 1]
         IN  sendRequest(s1, buildOllamaRequest(FullPrompt(prompt, context)), call)

sendPromptWithTools(s, prompt, tools, context, call) ==
    IF prompt = "" THEN Emit(s, "errorOccurred", "Prompt cannot be empty")
    ELSE IF ~s.m_capabilitiesDetected
    THEN [s EXCEPT !.m_pendingRequests =
                       Append(@, PendingRequest(prompt, tools, context, TRUE, call))]
    ELSE LET fullPrompt == FullPrompt(prompt, context)
             s1 == [s EXCEPT !.m_currentRetryCount = 0,
                             !.m_toolsEnabled = TRUE,
                             !.m_currentTools = tools,
                             !.m_currentPrompt = fullPrompt,
                             !.issued[call] = @ + 1]
         IN  IF s1.m_toolCallFormat = "native"
             THEN LET jsonRequest == buildNativeToolRequest(s1, fullPrompt, tools)
                      s2 == [s1 EXCEPT !.m_messageHistory =
                                           Append(@, Message("user", fullPrompt, FALSE))]
                  IN  sendRequest(s2, jsonRequest, call)
             ELSE sendRequest(s1, buildOllamaRequestWithTools(fullPrompt, tools), call)

RECURSIVE ReplayRequests(_, _)
ReplayRequests(s, requests) ==
    IF requests = <<>> THEN s
    ELSE LET req == Head(requests)
             s1 == IF req.withTools
                   THEN sendPromptWithTools(s, req.prompt, req.tools, req.context, req.call)
                   ELSE sendPrompt(s, req.prompt, req.context, req.call)
         IN  ReplayRequests(s1, Tail(requests))

\* a drain that replays the newest queued call first
NewestFirst(requests) == [i \in 1..Len(requests) |-> requests[Len(requests) + 1 - i]]
processPendingRequestsNewestFirst(s) ==
    IF s.m_pendingRequests = <<>> THEN s
    ELSE ReplayRequests([s EXCEPT !.m_pendingRequests = <<>>],
                        NewestFirst(s.m_pendingRequests))

processPendingRequests(s) ==
    IF s.m_pendingRequests = <<>> THEN s
    ELSE ReplayRequests([s EXCEPT !.m_pendingRequests = <<>>], s.m_pendingRequests)

\* ------------------------------------------------------ capability probe
queryModelCapabilities(s) ==
    IF ~s.m_networkManager \/ ~s.m_apiUrlValid THEN s
    ELSE Post([s EXCEPT !.net = @ \cup {NewReply(s.nextReply, "show", s.m_model)},
                        !.nextReply = @ + 1],
              "show", s.m_model, 0)

\* QString::contains on the texts a model-info reply can carry
MarkerTexts == {"", "tool", "function", "function_call"}
Contains(text, sub) ==
    \/ text = sub
    \/ text = "function_call" /\ sub = "function"

\* QString::toLower on the texts a probe can return
ToLower(text) == IF text = "Tool" THEN "tool" ELSE text

\* modelfile and template are lowered before the search, the details are not
hasToolSupport(info) ==
    \/ Contains(ToLower(info.modelfile), "tool")
    \/ Contains(ToLower(info.modelfile), "function_call")
    \/ Contains(ToLower(info.template), "tool")
    \/ Contains(ToLower(info.template), "function")
    \/ Contains(info.details, "tool") \/ Contains(info.details, "function")

\* `model` is bookkeeping: the model the answered probe named
ProbeOutcomes ==
    {[kind |-> k, modelfile |-> "", template |-> "", details |-> "", model |-> ""] :
        k \in {"error", "badjson", "notobject"}}
    \cup {[kind |-> "object", modelfile |-> m, template |-> t, details |-> d,
            model |-> ""] :
            m \in MarkerTexts, t \in MarkerTexts, d \in MarkerTexts}

handleModelInfoReply(s, outcome) ==
    IF outcome.kind # "object"
    THEN [s EXCEPT !.m_toolCallFormat = "unknown", !.probeResult = outcome.kind]
    ELSE LET format == IF hasToolSupport(outcome) THEN "native" ELSE "prompt"
             s1 == [s EXCEPT !.m_toolCallFormat = format,
                             !.probeResult = "object",
                             !.detectedFor = outcome.model,
                             !.m_capabilitiesDetected = TRUE]
         IN  processPendingRequests(Emit(s1, "modelCapabilitiesDetected", format))

\* ------------------------------------------------------ streaming decoder
\* A streamed line is a token line, a native tool_calls line or an error line.
Tokens == {"txt", "{\"tool_call\": {\"name\": \"calculator\", \"parameters\": {}}}"}
LinesOf(endpoint) ==
    Tokens \cup {"error"} \cup (IF endpoint = "chat" THEN {"tool_calls"} ELSE {})

\* the assistant message replaces the history instead of extending it
processNativeToolCallsReplacing(s) ==
    IF ~s.m_toolsEnabled THEN s
    ELSE EmitAbout(NoteToolCall(
                       [s EXCEPT !.m_messageHistory = <<Message("assistant", <<>>, TRUE)>>,
                                 !.m_nativeToolCallEmitted = TRUE]),
                   "toolCallRequested", "calculator", s.m_currentReply)

processNativeToolCalls(s) ==
    IF ~s.m_toolsEnabled THEN s
    ELSE EmitAbout(NoteToolCall(
                       [s EXCEPT !.m_messageHistory =
                                     Append(@, Message("assistant", <<>>, TRUE)),
                                 !.m_nativeToolCallEmitted = TRUE]),
                   "toolCallRequested", "calculator", s.m_currentReply)

processStreamingChunk(s, line) ==
    IF line = "garbage" THEN s
    ELSE IF line = "error" THEN Emit(s, "errorOccurred", "Streaming error")
    ELSE IF line = "tool_calls" THEN processNativeToolCalls(s)
    ELSE EmitAbout(NoteToken([s EXCEPT !.m_fullResponse = Append(@, line)], line),
                   "tokenReceived", line, s.m_currentReply)

\* m_streamBuffer + newData, then split('\n'): `line` is the text read, `newline`
\* whether a '\n' follows it.
Joined(buffer, line) ==
    IF buffer = "" THEN line ELSE IF line = "" THEN buffer ELSE "garbage"

handleStreamingData(s, line, newline) ==
    IF s.m_currentReply = 0 THEN s
    ELSE LET whole == Joined(s.m_streamBuffer, line)
         IN  IF ~newline THEN [s EXCEPT !.m_streamBuffer = whole]
             ELSE IF whole = "" THEN [s EXCEPT !.m_streamBuffer = ""]
             ELSE processStreamingChunk([s EXCEPT !.m_streamBuffer = ""], whole)

\* ------------------------------------------------------- retry controller
RetryableErrors ==
    {"ConnectionRefusedError", "RemoteHostClosedError", "HostNotFoundError",
     "TimeoutError", "OperationCanceledError", "TemporaryNetworkFailureError",
     "NetworkSessionFailedError", "BackgroundRequestNotAllowedError",
     "UnknownNetworkError", "UnknownProxyError", "UnknownContentError"}
NetworkErrors ==
    RetryableErrors \cup {"SslHandshakeFailedError", "ProtocolFailure",
                          "ContentNotFoundError", "AuthenticationRequiredError",
                          "InternalServerError"}

shouldRetry(error) == error \in RetryableErrors

\* m_retryDelay * (1 << (m_currentRetryCount - 1)); the configurations explored
\* stay far below the width of int
RetryDelayFor(retryDelay, retryCount) == retryDelay * 2^(retryCount - 1)

DeleteReply(s, id) == [s EXCEPT !.net = {r \in @ : r.id # id}]

processToolCalls(s, response) ==
    IF ~s.m_toolsEnabled THEN s
    ELSE IF \E i \in 1..Len(response) : response[i] # "txt"
    THEN EmitAbout(NoteToolCall(s), "toolCallRequested", "calculator", s.m_currentReply)
    ELSE s
ToolCallDetected(s, response) ==
    s.m_toolsEnabled /\ \E i \in 1..Len(response) : response[i] # "txt"

handleStreamingFinished(s, error) ==
    IF s.m_currentReply = 0 THEN s
    ELSE IF error # "NoError"
    THEN LET s1 == [DeleteReply(s, s.m_currentReply) EXCEPT !.m_currentReply = 0]
         IN  IF shouldRetry(error) /\ s1.m_currentRetryCount < s1.m_maxRetries
             THEN LET n == s1.m_currentRetryCount + 1
                      delay == RetryDelayFor(s1.m_retryDelay, n)
                      s2 == Emit([s1 EXCEPT !.m_currentRetryCount = n],
                                 "retryAttempt", <<n, s1.m_maxRetries>>)
                  IN  Arm([s2 EXCEPT !.retryTimers = Append(@, delay)],
                          "retryRequest", delay)
             ELSE Emit(s1, "errorOccurred", "Network error")
    ELSE LET s1 == IF s.m_streamBuffer # ""
                   THEN processStreamingChunk(s, s.m_streamBuffer)
                   ELSE s
             s2 == IF s1.m_fullResponse # <<>> \/ s1.m_nativeToolCallEmitted
                   THEN LET s3 == [s1 EXCEPT !.m_currentRetryCount = 0]
                        IN  IF s3.m_nativeToolCallEmitted THEN s3
                            ELSE IF ToolCallDetected(s3, s3.m_fullResponse)
                            THEN processToolCalls(s3, s3.m_fullResponse)
                            ELSE LET s4 ==
                                       IF s3.m_toolCallFormat = "native"
                                          /\ s3.m_fullResponse # <<>>
                                       THEN [s3 EXCEPT !.m_messageHistory =
                                                Append(@, Message("assistant",
                                                                  s3.m_fullResponse,
                                                                  FALSE))]
                                       ELSE s3
                                 IN  EmitAbout(s4, "responseReceived", s4.m_fullResponse,
                                               s4.m_currentReply)
                   ELSE Emit(s1, "errorOccurred", "No response received from LLM")
         IN  [DeleteReply(s2, s2.m_currentReply) EXCEPT !.m_currentReply = 0]

\* QNetworkAccessManager::finished, connected in the constructor
NonBlank(unread) == SelectSeq(unread, LAMBDA d : d.line # "")
handleNetworkReply(s, reply, error) ==
    IF reply.endpoint = "show" THEN s
    ELSE IF error # "NoError" THEN Emit(s, "errorOccurred", "Network error")
    ELSE LET lines == NonBlank(reply.unread)
         IN  IF lines = <<>> THEN s
             ELSE IF Len(lines) > 1 \/ lines[1].line = "garbage"
             THEN Emit(s, "errorOccurred", "JSON parse error")
             ELSE IF lines[1].line = "error" THEN Emit(s, "errorOccurred", "LLM API error")
             ELSE IF reply.endpoint = "generate" /\ lines[1].line # "tool_calls"
             THEN EmitAbout(s, "responseReceived", <<lines[1].line>>, reply.id)
             ELSE Emit(s, "errorOccurred", "Empty response from LLM")

\* The finished() signal of a streamed reply: the manager's slot was connected
\* first (inside post()), then the reply's own handleStreamingFinished.
\* both finished handlers of one reply; a retry timer armed here is noted
\* with the exchange that failed
ReplyDone(s, reply, error) ==
    LET s1 == DeleteReply(handleNetworkReply(s, reply, error), reply.id)
        s2 == handleStreamingFinished(s1, IF s1.m_currentReply = reply.id THEN error
                                          ELSE "NoError")
    IN  IF Len(s2.retryTimers) > Len(s.retryTimers)
        THEN [s2 EXCEPT !.retryFor = Append(@, [endpoint |-> reply.endpoint,
                                                data |-> reply.data])]
        ELSE s2

retryRequest(s) ==
    IF s.m_lastRequestData = NoData
    THEN Emit(s, "errorOccurred", "Retry failed: no request data")
    ELSE sendRequest([s EXCEPT !.resends[s.lastCall] = @ + 1], s.m_lastRequestData,
                     s.lastCall)

\* The 90 s single-shot armed at post time with the reply as context object.
RequestTimeout(s) ==
    IF s.m_currentReply = 0 THEN s
    ELSE LET current == CHOOSE r \in s.net : r.id = s.m_currentReply
         IN  Emit(ReplyDone(s, current, "OperationCanceledError"),
                  "errorOccurred", "Request timed out")

\* ------------------------------------------- model, history, tool results
setModel(s, model) == [s EXCEPT !.m_model = model]

clearConversationHistory(s) ==
    [s EXCEPT !.m_messageHistory = <<>>, !.historyClears = @ + 1]

\* the tool names of the results a host folds back: simple tools only, or not
ToolResultSets == {<<"calculator">>, <<"datetime", "fetch">>}
SimpleTools == {"datetime", "calculator"}
\* the tool-result text, sent as a user message
ToolResultContent(toolResults) == <<"tool results">> \o toolResults

\* hasComplexTools && m_toolCallFormat == "native"
FoldsThroughModel(s, toolResults) ==
    /\ \E i \in 1..Len(toolResults) : toolResults[i] \notin SimpleTools
    /\ s.m_toolCallFormat = "native"

\* The chat request is posted without passing through sendRequest: the retry
\* payload and the retry counter stay as the last prompt left them.
sendToolResults(s, toolResults) ==
    IF FoldsThroughModel(s, toolResults)
    THEN LET content == ToolResultContent(toolResults)
             toolResultMsg == Message("user", content, FALSE)
             messages == Append(pruneMessageHistoryForContext(s, content), toolResultMsg)
             s1 == [s EXCEPT !.m_messageHistory = Append(@, toolResultMsg)]
             jsonRequest == [shape |-> "toolresults", prompt |-> content, tools |-> <<>>,
                             messages |-> messages]
             id == s1.nextReply
         IN  IF ~s1.m_networkManager
             THEN Emit(s1, "errorOccurred", "Network manager not initialized")
             ELSE Arm(Post([s1 EXCEPT !.m_streamBuffer = NoLine,
                                      !.m_fullResponse = <<>>,
                                      !.m_nativeToolCallEmitted = FALSE,
                                      !.m_currentReply = id,
                                      !.net = @ \cup {NewReply(id, "chat", jsonRequest)},
                                      !.nextReply = id + 1],
                           "chat", jsonRequest, 0),
                      "timeout", RequestTimeoutMs)
    ELSE Emit(s, "responseReceived", <<"natural response">>)

\* ------------------------------------------------ LLMClient: the actions
RetryDelays == {DefaultRetryDelay}

\* the host's n-th call carries its own prompt text, or the empty prompt
PromptOf(call) == IF call % 2 = 1 THEN "p1" ELSE "p2"

LLMInit ==
    /\ m_networkManager = FALSE
    /\ m_apiUrlValid \in BOOLEAN
    /\ m_capabilitiesDetected = FALSE
    /\ m_toolCallFormat = "unknown"
    /\ m_pendingRequests = <<>>
    /\ m_currentReply = 0
    /\ m_streamBuffer = NoLine
    /\ m_fullResponse = <<>>
    /\ m_maxRetries \in 0..MaxRetriesCfg
    /\ m_retryDelay \in RetryDelays
    /\ m_currentRetryCount = 0
    /\ m_lastRequestData = NoData
    /\ m_currentTools = <<>>
    /\ m_toolsEnabled = FALSE
    /\ m_nativeToolCallEmitted = FALSE
    /\ m_messageHistory = <<>>
    /\ m_currentPrompt = <<>>
    /\ net = {}
    /\ nextReply = 1
    /\ retryTimers = <<>>
    /\ initTimer = TRUE
    /\ effects = <<>>
    /\ callCount = 0
    /\ issued = [c \in 1..MaxCalls |-> 0]
    /\ lastCall = 0
    /\ resends = [c \in 1..MaxCalls |-> 0]
    /\ probeResult = "none"
    /\ m_model = ConfiguredModel
    /\ detectedFor = "none"
    /\ historyClears = 0
    /\ toolResultsSent = 0
    /\ retryFor = <<>>

\* the constructor's QTimer::singleShot(0, ...) lambda
InitTimerFires ==
    /\ initTimer
    /\ SetLLM(queryModelCapabilities([LLM EXCEPT !.initTimer = FALSE,
                                                 !.m_networkManager = TRUE]))

HostSendPrompt(prompt, context) ==
    /\ callCount < MaxCalls
    /\ prompt \in {"", PromptOf(callCount + 1)}
    /\ SetLLM(sendPrompt([LLM EXCEPT !.callCount = @ + 1], prompt, context, callCount + 1))

HostSendPromptWithTools(prompt, tools, context) ==
    /\ callCount < MaxCalls
    /\ prompt \in {"", PromptOf(callCount + 1)}
    /\ SetLLM(sendPromptWithTools([LLM EXCEPT !.callCount = @ + 1], prompt, tools, context,
                                  callCount + 1))

\* the /api/show reply finishes: handleNetworkReply skips it, its own slot runs
ModelInfoReplyFinished(reply, outcome) ==
    /\ reply \in net
    /\ reply.endpoint = "show"
    /\ SetLLM(DeleteReply(handleModelInfoReply(handleNetworkReply(LLM, reply, "NoError"),
                                               [outcome EXCEPT !.model = reply.data]),
                          reply.id))

\* readyRead of a streamed reply; the slot reads m_currentReply, not the sender
ReadyReadUpTo(limit, reply, line, newline) ==
    /\ reply \in net
    /\ reply.endpoint # "show"
    /\ reply.delivered < limit
    /\ line # "" \/ newline
    /\ IF reply.id = m_currentReply
       THEN SetLLM(handleStreamingData(
                [LLM EXCEPT !.net = (@ \ {reply})
                                    \cup {[reply EXCEPT !.delivered = @ + 1]}],
                line, newline))
       ELSE SetLLM(
                [LLM EXCEPT !.net = (@ \ {reply})
                                    \cup {[reply EXCEPT !.delivered = @ + 1,
                                                          !.unread = Append(@,
                                                              [line |-> line,
                                                               newline |-> newline])]}])

ReadyRead(reply, line, newline) == ReadyReadUpTo(MaxChunks, reply, line, newline)

ReplyFinished(reply, error) ==
    /\ reply \in net
    /\ reply.endpoint # "show"
    /\ SetLLM(ReplyDone(LLM, reply, error))

\* the first effect of the step notes which failed exchange the timer was for
RetryTimerFires(i) ==
    /\ i \in 1..Len(retryTimers)
    /\ SetLLM(retryRequest([LLM EXCEPT !.retryTimers =
                                          SubSeq(@, 1, i - 1) \o SubSeq(@, i + 1, Len(@)),
                                      !.retryFor =
                                          SubSeq(@, 1, i - 1) \o SubSeq(@, i + 1, Len(@)),
                                      !.effects = <<Effect("fired", "retryRequest",
                                                           retryFor[i], 0)>>]))

TimeoutFires(reply) ==
    /\ reply \in net
    /\ reply.timeout
    /\ SetLLM(RequestTimeout([LLM EXCEPT !.net = (@ \ {reply})
                                                 \cup {[reply EXCEPT !.timeout = FALSE]}]))

\* the lines the backend streams here: a token line, and a tool_calls line on /api/chat
StreamedLines(endpoint) == {"txt"} \cup (IF endpoint = "chat" THEN {"tool_calls"} ELSE {})

\* how a streamed exchange can end: well, or with one of these transport errors
ReplyErrors ==
    {"NoError", "ConnectionRefusedError", "TimeoutError", "AuthenticationRequiredError"}

NextLLM ==
    \/ InitTimerFires
    \/ \E prompt \in Prompts, context \in Contexts : HostSendPrompt(prompt, context)
    \/ \E prompt \in Prompts, tools \in ToolSets, context \in Contexts :
           HostSendPromptWithTools(prompt, tools, context)
    \/ \E reply \in net, outcome \in ProbeOutcomes : ModelInfoReplyFinished(reply, outcome)
    \/ \E reply \in net :
           \E line \in StreamedLines(reply.endpoint) : ReadyRead(reply, line, TRUE)
    \/ \E reply \in net, error \in ReplyErrors : ReplyFinished(reply, error)
    \/ \E i \in 1..Len(retryTimers) : RetryTimerFires(i)
    \/ \E reply \in net : TimeoutFires(reply)

\* ---- a followed session: more lines per reply, model changes, history
\* clears and folded tool results
StreamedLineArrives(reply, line) == ReadyReadUpTo(MaxSessionChunks, reply, line, TRUE)

HostSetModel(model) ==
    /\ m_model = ConfiguredModel
    /\ model # m_model
    /\ SetLLM(setModel(LLM, model))

HostClearConversationHistory ==
    /\ historyClears < MaxHistoryClears
    /\ SetLLM(clearConversationHistory(LLM))

HostSendToolResults(toolResults) ==
    /\ toolResultsSent < MaxToolResults
    /\ SetLLM(sendToolResults([LLM EXCEPT !.toolResultsSent = @ + 1], toolResults))

\* the probe answers a followed session gets: a failure, or an object with or
\* without tool support
SessionProbeOutcomes ==
    {outcome \in ProbeOutcomes :
        outcome.kind \in {"error", "object"} /\ outcome.modelfile = ""
        /\ outcome.template = "" /\ outcome.details \in {"", "tool"}}

SessionPrompts == Prompts \ {""}
SessionReplyErrors == {"NoError", "ConnectionRefusedError"}
\* the chunks a backend can answer with on either endpoint: content, or a
\* message carrying tool_calls
SessionLines == {"txt", "tool_calls"}

NextSession ==
    \/ InitTimerFires
    \/ \E prompt \in SessionPrompts, context \in Contexts :
           callCount < MaxSessionCalls /\ HostSendPrompt(prompt, context)
    \/ \E prompt \in SessionPrompts, tools \in ToolSets, context \in Contexts :
           callCount < MaxSessionCalls /\ HostSendPromptWithTools(prompt, tools, context)
    \/ \E reply \in net, outcome \in SessionProbeOutcomes :
           ModelInfoReplyFinished(reply, outcome)
    \/ \E reply \in net :
           \E line \in SessionLines : StreamedLineArrives(reply, line)
    \/ \E reply \in net, error \in SessionReplyErrors : ReplyFinished(reply, error)
    \/ \E i \in 1..Len(retryTimers) : RetryTimerFires(i)
    \/ \E reply \in net : TimeoutFires(reply)
    \/ \E model \in Models : HostSetModel(model)
    \/ HostClearConversationHistory
    \/ \E toolResults \in ToolResultSets : HostSendToolResults(toolResults)

\* ======================================================== MCPHandler part
\* ------------------------------------------------------------ value spaces
\* The tools the host can register: name and transport variant.
MCPTool(name, description, toolType, function, networkUrl) ==
    [name |-> name, description |-> description, toolType |-> toolType,
     function |-> function, networkUrl |-> networkUrl]
\* the registry's answer for a name it does not hold
NoTool == MCPTool("", "", "none", FALSE, "")
ToolCatalog ==
    {MCPTool("calculator", "adds", "Local", TRUE, ""),
     MCPTool("fetch", "fetches", "HTTP", FALSE, "http://host/mcp"),
     MCPTool("ns:fetch", "fetches", "HTTP", FALSE, "http://host/mcp"),
     MCPTool("stream", "streams", "SSE", FALSE, "http://host/sse")}
\* definitions a host may hand to registerTool, valid and not
ToolDefinitions ==
    {MCPTool(name, description, toolType, function, networkUrl) :
        name \in {"", "calculator", "fetch"}, description \in {"", "adds", "fetches"},
        toolType \in {"Local", "HTTP", "SSE"}, function \in BOOLEAN,
        networkUrl \in {"", "http://host/mcp"}}
ToolNames == {tool.name : tool \in ToolCatalog}
CallableNames == ToolNames \cup {"missing_tool"}
\* the first 8 characters of a random UUID
IdSpace == {"0a1b2c3d", "4e5f6a7b"}
\* what tool.function(parameters) does: returns, or throws
LocalOutcomes == {"result", "std::exception", "other"}
\* QObject::deleteLater() called through a null pointer
NullCallOutcomes == {"continues", "crashes"}

\* A tracking entry: the stored "id:name" text, and (bookkeeping) the invocation
\* that stored it.
NoEntry == [info |-> <<>>, owner |-> 0]
Entry(info, owner) == [info |-> info, owner |-> owner]
NoClient == [exists |-> FALSE, m_networkManager |-> FALSE, m_currentReply |-> FALSE,
             opener |-> 0, sawTerminal |-> FALSE]

\* QString::split(":") of a tool name
SplitColon(name) == IF name = "ns:fetch" THEN <<"ns", "fetch">> ELSE <<name>>
\* toolCallId + ":" + toolName, kept as the parts split(":") gives back
CallInfo(toolCallId, toolName) == <<toolCallId>> \o SplitColon(toolName)

\* the text of the dispatcher's other failure, "Unknown tool type for: %1"
ToolUnknownTypeError(toolName) == <<"Unknown tool type for: ", toolName>>
\* QString("Tool not found: %1").arg(toolName)
ToolNotFoundError(toolName) == <<"Tool not found: ", toolName>>
\* error.contains("not found")
ContainsNotFound(error) == \E i \in 1..Len(error) : error[i] = "Tool not found: "

\* The MCPHandler object, its SSE clients and the bookkeeping as one record.
\* `current` is the executeToolCall invocation in progress, 0 in the event loop.
MCP ==
    [mcpNetworkManager |-> mcpNetworkManager, mcpInitTimer |-> mcpInitTimer,
     m_tools |-> m_tools, m_pendingCalls |-> m_pendingCalls,
     m_sseClients |-> m_sseClients, m_sseToolCalls |-> m_sseToolCalls,
     m_toolCallCounter |-> m_toolCallCounter, httpReplies |-> httpReplies,
     nextHttpReply |-> nextHttpReply, sseDelivered |-> sseDelivered,
     crashed |-> crashed, returnedCalls |-> returnedCalls, invocations |-> invocations,
     reports |-> reports, sseCloses |-> sseCloses, registerCalls |-> registerCalls,
     discovery |-> discovery, registryCalls |-> registryCalls,
     current |-> 0, returned |-> FALSE, count |-> 0]

SetMCP(m) ==
    /\ mcpNetworkManager' = m.mcpNetworkManager
    /\ mcpInitTimer' = m.mcpInitTimer
    /\ m_tools' = m.m_tools
    /\ m_pendingCalls' = m.m_pendingCalls
    /\ m_sseClients' = m.m_sseClients
    /\ m_sseToolCalls' = m.m_sseToolCalls
    /\ m_toolCallCounter' = m.m_toolCallCounter
    /\ httpReplies' = m.httpReplies
    /\ nextHttpReply' = m.nextHttpReply
    /\ sseDelivered' = m.sseDelivered
    /\ crashed' = m.crashed
    /\ returnedCalls' = m.returnedCalls
    /\ invocations' = m.invocations
    /\ reports' = m.reports
    /\ sseCloses' = m.sseCloses
    /\ registerCalls' = m.registerCalls
    /\ discovery' = m.discovery
    /\ registryCalls' = m.registryCalls
    /\ UNCHANGED <<llmVars, sseVars, chunkVars, m_chunks, ragVars, fnVars>>

\* ----------------------------------------------------------- the reports
\* emit toolCallCompleted / toolCallFailed(toolCallId, toolName, ...).  `owner` is
\* the invocation the reported id was generated for, `answers` the invocation
\* whose request the reported outcome belongs to, `during` the invocation on the
\* call stack at the emit (0: emitted from the event loop).
\* `result` is the QJsonObject a toolCallCompleted carries, a set of
\* <<member, value>> pairs; `replied` (bookkeeping) is the value of the result
\* member of the HTTP reply that was answered, "none" without one.
Report(m, signal, toolCallId, toolName, error, owner, answers) ==
    [m EXCEPT !.reports = Append(@, [signal |-> signal, id |-> toolCallId,
                                     name |-> toolName, error |-> error,
                                     owner |-> owner, answers |-> answers,
                                     during |-> m.current,
                                     result |-> {}, replied |-> "none"])]
ReportCompleted(m, toolCallId, toolName, result, replied, owner, answers) ==
    [m EXCEPT !.reports = Append(@, [signal |-> "toolCallCompleted", id |-> toolCallId,
                                     name |-> toolName, error |-> <<>>,
                                     owner |-> owner, answers |-> answers,
                                     during |-> m.current,
                                     result |-> result, replied |-> replied])]
ReportFailed(m, toolCallId, toolName, error) ==
    Report(m, "toolCallFailed", toolCallId, toolName, error, m.current, m.current)

\* ---------------------------------------------------------------- Local
executeLocalToolMisreported(m, toolCallId, toolName, outcome) ==
    Report(m, "toolCallCompleted", toolCallId, toolName, <<>>, m.current, m.current)

executeLocalTool(m, toolCallId, toolName, outcome) ==
    IF outcome = "result"
    THEN Report(m, "toolCallCompleted", toolCallId, toolName, <<>>, m.current, m.current)
    ELSE IF outcome = "std::exception"
    THEN ReportFailed(m, toolCallId, toolName, <<"Tool execution error: ", "what">>)
    ELSE ReportFailed(m, toolCallId, toolName, <<"Unknown error during tool execution">>)

\* ----------------------------------------------------------------- HTTP
\* QString::number(reinterpret_cast<quintptr>(reply))
ReplyKeyShared(reply) == 0
ReplyKey(reply) == reply

executeNetworkedTool(m, toolCallId, toolName) ==
    IF ~m.mcpNetworkManager
    THEN ReportFailed(m, toolCallId, toolName, <<"Network manager not initialized yet">>)
    ELSE LET reply == m.nextHttpReply
         IN  [m EXCEPT !.m_toolCallCounter = @ + 1,
                       !.httpReplies = @ \cup {[id |-> reply, call |-> m.current]},
                       !.nextHttpReply = @ + 1,
                       !.m_pendingCalls[ReplyKey(reply)] =
                           Entry(CallInfo(toolCallId, toolName), m.current)]

HttpOutcomes == {"error", "badjson", "rpcerror", "result", "plain"}

\* the values the result member of a reply can have, as JSON text
JsonValues == {"42", "{}", "{\"sum\":42}", "{\"result\":42}"}
\* QJsonValue::toObject(): the members of an object, none for any other value
toObject(value) ==
    CASE value = "{\"sum\":42}" -> {<<"sum", "42">>}
      [] value = "{\"result\":42}" -> {<<"result", "42">>}
      [] OTHER -> {}
\* a reply object without result and error members, delivered whole
PlainObject == {<<"operation", "add">>}

\* the object handed to toolCallCompleted
DeliveredResult(outcome, value) ==
    IF outcome = "result" THEN toObject(value) ELSE PlainObject

\* handleNetworkToolResponse for a reply whose result member, if any, is value
handleNetworkToolResponseWith(m, reply, outcome, value) ==
    LET entry == m.m_pendingCalls[ReplyKey(reply.id)]
        parts == entry.info
        m1 == [m EXCEPT !.m_pendingCalls[ReplyKey(reply.id)] = NoEntry,
                        !.httpReplies = @ \ {reply}]
    IN  IF Len(parts) # 2 THEN m1
        ELSE IF outcome = "error"
        THEN Report(m1, "toolCallFailed", parts[1], parts[2], <<"Network error: ">>,
                    entry.owner, reply.call)
        ELSE IF outcome = "badjson"
        THEN Report(m1, "toolCallFailed", parts[1], parts[2], <<"JSON parse error: ">>,
                    entry.owner, reply.call)
        ELSE IF outcome = "rpcerror"
        THEN Report(m1, "toolCallFailed", parts[1], parts[2], <<"message">>,
                    entry.owner, reply.call)
        ELSE ReportCompleted(m1, parts[1], parts[2], DeliveredResult(outcome, value),
                             IF outcome = "result" THEN value ELSE "none",
                             entry.owner, reply.call)

handleNetworkToolResponse(m, reply, outcome) ==
    handleNetworkToolResponseWith(m, reply, outcome, "{}")

\* ------------------------------------------------------------------ SSE
SseEventTypes == {"message", "done", "complete", "end"}
IsComplete(eventType) == eventType \in {"done", "complete", "end"}

DropSseCall(m, client) == [m EXCEPT !.m_sseToolCalls[client] = NoEntry]

handleSSEEvent(m, client, eventType) ==
    LET entry == m.m_sseToolCalls[client]
        parts == entry.info
    IN  IF parts = <<>> \/ Len(parts) # 2 THEN m
        ELSE LET m1 == Report(m, "toolCallCompleted", parts[1], parts[2], <<>>,
                              entry.owner, m.m_sseClients[client].opener)
             IN  IF IsComplete(eventType) THEN DropSseCall(m1, client) ELSE m1

SseFailure(m, client, error) ==
    LET entry == m.m_sseToolCalls[client]
        parts == entry.info
    IN  IF entry = NoEntry THEN m
        ELSE IF Len(parts) = 2
        THEN DropSseCall(Report(m, "toolCallFailed", parts[1], parts[2], error,
                                entry.owner, m.m_sseClients[client].opener),
                         client)
        ELSE DropSseCall(m, client)

handleSSEDisconnected(m, client) ==
    SseFailure(m, client, <<"SSE connection closed unexpectedly">>)
handleSSEError(m, client, error) == SseFailure(m, client, error)

\* SSEClient::handleError and SSEClient::handleFinished
handleError(m, client) ==
    IF ~m.m_sseClients[client].m_currentReply THEN m
    ELSE handleSSEError(m, client, <<"SSE error: ">>)
handleFinished(m, client) ==
    IF ~m.m_sseClients[client].m_currentReply THEN m
    ELSE handleSSEDisconnected([m EXCEPT !.m_sseClients[client].m_currentReply = FALSE],
                               client)

\* The end of a client's stream: errorOccurred (when it ends in an error), then
\* finished.  Bookkeeping: the invocation that opened the stream, whether a
\* terminal event had arrived on it, and the owners of the failures reported.
FailedOwners(reps, from) ==
    LET new == SubSeq(reps, from, Len(reps))
        failed == SelectSeq(new, LAMBDA r : r.signal = "toolCallFailed")
    IN  [i \in 1..Len(failed) |-> failed[i].owner]
StreamEnds(m, client, withError) ==
    LET m1 == handleFinished(IF withError THEN handleError(m, client) ELSE m, client)
    IN  [m1 EXCEPT !.sseCloses =
            Append(@, [call |-> m.m_sseClients[client].opener,
                       terminal |-> m.m_sseClients[client].sawTerminal,
                       failedOwners |-> FailedOwners(m1.reports, Len(m.reports) + 1)])]

\* SSEClient::disconnect: abort() runs handleError and handleFinished at once, so
\* the deleteLater() after it is called through the null m_currentReply.
disconnect(m, client, nullCall) ==
    IF ~m.m_sseClients[client].m_currentReply THEN m
    ELSE LET m1 == StreamEnds(m, client, TRUE)
         IN  IF nullCall = "crashes" THEN [m1 EXCEPT !.crashed = TRUE]
             ELSE handleSSEDisconnected(m1, client)

connectToStream(m, client, nullCall) ==
    LET m1 == disconnect(m, client, nullCall)
        m2 == [m1 EXCEPT !.m_sseClients[client].opener = m.current]
    IN  IF m1.crashed THEN m1
        ELSE IF ~m2.m_sseClients[client].m_networkManager
        THEN handleSSEError(m2, client, <<"Network manager not initialized">>)
        ELSE [m2 EXCEPT !.m_sseClients[client].m_currentReply = TRUE,
                        !.m_sseClients[client].sawTerminal = FALSE]

executeSSETool(m, toolCallId, toolName, nullCall) ==
    LET m1 == IF m.m_sseClients[toolName].exists THEN m
              ELSE [m EXCEPT !.m_sseClients[toolName] = [NoClient EXCEPT !.exists = TRUE]]
        m2 == [m1 EXCEPT !.m_sseToolCalls[toolName] =
                             Entry(CallInfo(toolCallId, toolName), m.current)]
    IN  connectToStream(m2, toolName, nullCall)

\* ------------------------------------------------------------- dispatch
executeToolCall(m, toolName, toolCallId, outcome, nullCall) ==
    LET m0 == [m EXCEPT !.invocations = @ + 1, !.current = m.invocations + 1]
        kind == m.m_tools[toolName].toolType
        m1 == IF kind = "none"
              THEN ReportFailed(m0, toolCallId, toolName, ToolNotFoundError(toolName))
              ELSE IF kind = "Local"
              THEN executeLocalTool(m0, toolCallId, toolName, outcome)
              ELSE IF kind = "HTTP"
              THEN executeNetworkedTool(m0, toolCallId, toolName)
              ELSE executeSSETool(m0, toolCallId, toolName, nullCall)
    IN  IF m1.crashed THEN m1
        ELSE [m1 EXCEPT !.returnedCalls = Append(@, [id |-> toolCallId, name |-> toolName,
                                                 kind |-> kind, outcome |-> outcome])]

\* MCPTool::isValid without the test of the URL
isValidWithoutUrl(tool) ==
    IF tool.name = "" \/ tool.description = "" THEN FALSE
    ELSE IF tool.toolType = "Local" THEN tool.function
    ELSE tool.toolType \in {"HTTP", "SSE"}

isValid(tool) ==
    IF tool.name = "" \/ tool.description = "" THEN FALSE
    ELSE IF tool.toolType = "Local" THEN tool.function
    ELSE IF tool.toolType \in {"HTTP", "SSE"} THEN tool.networkUrl # ""
    ELSE FALSE

registerTool(m, tool) ==
    IF ~isValid(tool) THEN [m EXCEPT !.returned = FALSE]
    ELSE [m EXCEPT !.m_tools[tool.name] = tool, !.returned = TRUE]

\* ------------------------------------------------------ clearing, discovery
\* a clear that takes only the HTTP tools for networked
clearNetworkedToolsHttpOnly(m) ==
    LET networkedToolNames == {name \in DOMAIN m.m_tools : m.m_tools[name].toolType = "HTTP"}
    IN  [m EXCEPT !.m_tools = [name \in DOMAIN @ |->
                                  IF name \in networkedToolNames THEN NoTool ELSE @[name]],
                  !.count = Cardinality(networkedToolNames)]

clearNetworkedTools(m) ==
    LET networkedToolNames ==
            {name \in DOMAIN m.m_tools : m.m_tools[name].toolType \in {"HTTP", "SSE"}}
    IN  [m EXCEPT !.m_tools = [name \in DOMAIN @ |->
                                  IF name \in networkedToolNames THEN NoTool ELSE @[name]],
                  !.count = Cardinality(networkedToolNames)]

registerNetworkedTool(m, name, description, networkUrl) ==
    registerTool(m, MCPTool(name, description, "HTTP", FALSE, networkUrl))

\* QUrl(serverUrl).isValid() on the URLs a host configures
ServerUrls == {"", "http://host/mcp", "http://other/mcp"}
UrlIsValid(serverUrl) == serverUrl # ""

\* How a round-trip's nested event loop was left: the reply finished without
\* error, finished with a transport error, or the 5 s timer quit the loop while
\* the reply was still running (its error() is then NoError).  `body` is what
\* readAll() returns at that moment: its framing and the document it carries.
Framings == {"json", "sse", "sse-nodata"}
Documents == {"empty", "garbage", "array", "error", "result"}
RoundTripEnds ==
    {[how |-> "error", framing |-> "json", doc |-> "empty"]}
    \cup {[how |-> how, framing |-> framing, doc |-> doc] :
            how \in {"finished", "timeout"}, framing \in Framings, doc \in Documents}
NoRoundTrip == [how |-> "none", framing |-> "json", doc |-> "empty"]

\* the text handed to QJsonDocument::fromJson: a body that starts with "event:"
\* is cut after its first "data: " and trimmed; without "data: " it stays whole
ResponseDocument(end) == IF end.framing = "sse-nodata" THEN "garbage" ELSE end.doc

\* the checks after a nested loop: error(), isNull/isObject, contains("error")
RoundTripAccepted(end) == end.how # "error" /\ ResponseDocument(end) = "result"

\* entries of result.tools: a JSON value that is an object or not, with the
\* name and the description it carries
ListedTool(isObject, name, description) ==
    [isObject |-> isObject, name |-> name, description |-> description]
ListedTools ==
    {ListedTool(FALSE, "", ""), ListedTool(TRUE, "", "fetches"),
     ListedTool(TRUE, "fetch", ""), ListedTool(TRUE, "fetch", "fetches"),
     ListedTool(TRUE, "calculator", "")}
ToolLists == UNION {[1..n -> ListedTools] : n \in 0..MaxListedTools}
\* QString("Tool from %1").arg(serverName)
DefaultDescription == "Tool from server"

NoDiscovery == [pc |-> "idle", serverUrl |-> "", initEnd |-> NoRoundTrip]

\* a call that returned: its arguments, its result and the registry at its
\* entry and at its return
RegistryCall(m, op, args, returned, before) ==
    [m EXCEPT !.registryCalls = Append(@, [op |-> op, args |-> args, returned |-> returned,
                                           before |-> before, after |-> m.m_tools]),
              !.discovery = NoDiscovery]
DiscoveryReturns(m, listSent, listEnd, tools, returned, before) ==
    RegistryCall(m, "discover",
                 [serverUrl |-> m.discovery.serverUrl, initEnd |-> m.discovery.initEnd,
                  listSent |-> listSent, listEnd |-> listEnd, tools |-> tools],
                 returned, before)

\* the loop over result.tools; m.count is registeredCount
RECURSIVE RegisterListedTools(_, _, _)
RegisterListedTools(m, tools, serverUrl) ==
    IF tools = <<>> THEN m
    ELSE LET tool == Head(tools)
         IN  IF ~tool.isObject \/ tool.name = ""
             THEN RegisterListedTools(m, Tail(tools), serverUrl)
             ELSE LET m1 == registerNetworkedTool(
                                m, tool.name,
                                IF tool.description = "" THEN DefaultDescription
                                ELSE tool.description,
                                serverUrl)
                  IN  RegisterListedTools(
                          IF m1.returned THEN [m1 EXCEPT !.count = @ + 1] ELSE m1,
                          Tail(tools), serverUrl)

\* discoverAndRegisterServerTools up to the first nested loop
discoverAndRegisterServerTools(m, serverUrl) ==
    LET m1 == [m EXCEPT !.discovery.serverUrl = serverUrl]
    IN  IF ~m.mcpNetworkManager \/ ~UrlIsValid(serverUrl)
        THEN DiscoveryReturns(m1, FALSE, NoRoundTrip, <<>>, -1, m.m_tools)
        ELSE [m1 EXCEPT !.discovery.pc = "initialize"]

\* from the return of initLoop.exec() to the second nested loop
discoverAfterInitialize(m, end) ==
    LET m1 == [m EXCEPT !.discovery.initEnd = end]
    IN  IF ~RoundTripAccepted(end)
        THEN DiscoveryReturns(m1, FALSE, NoRoundTrip, <<>>, -1, m.m_tools)
        ELSE [m1 EXCEPT !.discovery.pc = "tools/list"]

\* from the return of listLoop.exec() to the return of the function
discoverAfterToolsList(m, end, tools) ==
    IF ~RoundTripAccepted(end)
    THEN DiscoveryReturns(m, TRUE, end, tools, -1, m.m_tools)
    ELSE IF tools = <<>> THEN DiscoveryReturns(m, TRUE, end, tools, 0, m.m_tools)
    ELSE LET m1 == RegisterListedTools([m EXCEPT !.count = 0], tools, m.discovery.serverUrl)
         IN  DiscoveryReturns(m1, TRUE, end, tools, m1.count, m.m_tools)

\* ---------------------------------------------- MCPHandler: the actions
MCPInit ==
    /\ mcpNetworkManager = FALSE
    /\ mcpInitTimer = TRUE
    /\ m_tools = [name \in CallableNames |-> NoTool]
    /\ m_pendingCalls = [key \in 0..MaxToolCalls |-> NoEntry]
    /\ m_sseClients = [name \in ToolNames |-> NoClient]
    /\ m_sseToolCalls = [name \in ToolNames |-> NoEntry]
    /\ m_toolCallCounter = 0
    /\ httpReplies = {}
    /\ nextHttpReply = 1
    /\ sseDelivered = 0
    /\ crashed = FALSE
    /\ returnedCalls = <<>>
    /\ invocations = 0
    /\ reports = <<>>
    /\ sseCloses = <<>>
    /\ registerCalls = <<>>
    /\ discovery = NoDiscovery
    /\ registryCalls = <<>>

MCPInitTimerFires ==
    /\ ~crashed
    /\ mcpInitTimer
    /\ SetMCP([MCP EXCEPT !.mcpInitTimer = FALSE, !.mcpNetworkManager = TRUE])

\* the singleShot(0) of an SSEClient's constructor
SseInitTimerFires(client) ==
    /\ ~crashed
    /\ m_sseClients[client].exists
    /\ ~m_sseClients[client].m_networkManager
    /\ SetMCP([MCP EXCEPT !.m_sseClients[client].m_networkManager = TRUE])

HostRegisterTool(tool) ==
    /\ ~crashed
    /\ discovery = NoDiscovery
    /\ SetMCP(registerTool(MCP, tool))

\* a host call of registerTool that is followed: what it was given, what it
\* returned and the registry before and after
HostRegisterDefinition(tool) ==
    /\ Len(registerCalls) < MaxRegistrations
    /\ LET m == registerTool(MCP, tool)
       IN  SetMCP([m EXCEPT !.registerCalls =
                      Append(@, [tool |-> tool, returned |-> m.returned,
                                 before |-> m_tools, after |-> m.m_tools])])

NextRegistry == \E tool \in ToolDefinitions : HostRegisterDefinition(tool)

\* the tools the host registers itself: one of each transport
HostTools == {tool \in ToolCatalog : tool.name \in {"calculator", "fetch", "stream"}}

\* the host's calling flow is inside discoverAndRegisterServerTools while a
\* nested loop runs, so it makes no other registry call until the function returns
HostClearNetworkedTools ==
    /\ discovery = NoDiscovery
    /\ Len(SelectSeq(registryCalls, LAMBDA c : c.op = "clearNetworkedTools")) < MaxClears
    /\ LET m == clearNetworkedTools(MCP)
       IN  SetMCP(RegistryCall(m, "clearNetworkedTools", <<>>, m.count, m_tools))

HostDiscover(serverUrl) ==
    /\ discovery = NoDiscovery
    /\ Len(SelectSeq(registryCalls, LAMBDA c : c.op = "discover")) < MaxDiscoveries
    /\ SetMCP(discoverAndRegisterServerTools(MCP, serverUrl))

InitializeRoundTripEnds(end) ==
    /\ discovery.pc = "initialize"
    /\ SetMCP(discoverAfterInitialize(MCP, end))

ToolsListRoundTripEnds(end, tools) ==
    /\ discovery.pc = "tools/list"
    /\ RoundTripAccepted(end) \/ tools = <<>>
    /\ SetMCP(discoverAfterToolsList(MCP, end, tools))

NextDiscovery ==
    \/ MCPInitTimerFires
    \/ \E tool \in HostTools :
           Len(registryCalls) < MaxClears + MaxDiscoveries /\ HostRegisterTool(tool)
    \/ HostClearNetworkedTools
    \/ \E serverUrl \in ServerUrls : HostDiscover(serverUrl)
    \/ \E end \in RoundTripEnds : InitializeRoundTripEnds(end)
    \/ \E end \in RoundTripEnds, tools \in ToolLists : ToolsListRoundTripEnds(end, tools)

HostExecuteToolCall(toolName, toolCallId, outcome, nullCall) ==
    /\ ~crashed
    /\ invocations < MaxToolCalls
    /\ outcome = "result" \/ m_tools[toolName].toolType = "Local"
    /\ nullCall = "continues"
       \/ (m_tools[toolName].toolType = "SSE" /\ m_sseClients[toolName].m_currentReply)
    /\ SetMCP([executeToolCall(MCP, toolName, toolCallId, outcome, nullCall)
                  EXCEPT !.current = 0])

HttpReplyFinished(reply, outcome) ==
    /\ ~crashed
    /\ reply \in httpReplies
    /\ SetMCP(handleNetworkToolResponse(MCP, reply, outcome))

\* handleReadyRead decodes one complete event and emits eventReceived
SseEventArrives(client, eventType) ==
    /\ ~crashed
    /\ m_sseClients[client].m_currentReply
    /\ sseDelivered < MaxSseEvents
    /\ SetMCP(handleSSEEvent(
           [MCP EXCEPT !.sseDelivered = @ + 1,
                       !.m_sseClients[client].sawTerminal = @ \/ IsComplete(eventType)],
           client, eventType))

SseStreamFinished(client) ==
    /\ ~crashed
    /\ m_sseClients[client].m_currentReply
    /\ SetMCP(StreamEnds(MCP, client, FALSE))

\* a transport error: errorOccurred, then finished
SseStreamFailed(client) ==
    /\ ~crashed
    /\ m_sseClients[client].m_currentReply
    /\ SetMCP(StreamEnds(MCP, client, TRUE))

\* ---- HTTP tools whose replies are followed down to the delivered object
HttpTools == {tool \in ToolCatalog : tool.name = "fetch"}

HttpReplyArrives(reply, outcome, value) ==
    /\ ~crashed
    /\ reply \in httpReplies
    /\ outcome = "result" \/ value = "{}"
    /\ SetMCP(handleNetworkToolResponseWith(MCP, reply, outcome, value))

NextHttpTool ==
    \/ MCPInitTimerFires
    \/ \E tool \in HttpTools : HostRegisterTool(tool)
    \/ \E tool \in HttpTools, toolCallId \in IdSpace :
           HostExecuteToolCall(tool.name, toolCallId, "result", "continues")
    \/ \E reply \in httpReplies, outcome \in HttpOutcomes, value \in JsonValues :
           HttpReplyArrives(reply, outcome, value)

NextMCP ==
    \/ MCPInitTimerFires
    \/ \E client \in ToolNames : SseInitTimerFires(client)
    \/ \E tool \in ToolCatalog : HostRegisterTool(tool)
    \/ \E toolName \in CallableNames, toolCallId \in IdSpace, outcome \in LocalOutcomes,
          nullCall \in NullCallOutcomes :
           HostExecuteToolCall(toolName, toolCallId, outcome, nullCall)
    \/ \E reply \in httpReplies, outcome \in HttpOutcomes : HttpReplyFinished(reply, outcome)
    \/ \E client \in ToolNames, eventType \in SseEventTypes :
           SseEventArrives(client, eventType)
    \/ \E client \in ToolNames : SseStreamFinished(client)
    \/ \E client \in ToolNames : SseStreamFailed(client)

\* ===================================================== SSEClient decoder part
\* Byte strings are sequences of one-character strings.
NL == "\n"
fEvent == <<"e", "v", "e", "n", "t">>
fData == <<"d", "a", "t", "a">>
fId == <<"i", "d">>
fRetry == <<"r", "e", "t", "r", "y">>
MessageType == <<"m", "e", "s", "s", "a", "g", "e">>

\* the lines a server may send (without their line ends)
SseLines ==
    { <<"d", "a", "t", "a", ":", " ", "x">>,
      <<"d", "a", "t", "a", ":", "y">>,
      <<"e", "v", "e", "n", "t", ":", "e">>,
      <<"i", "d", ":", "1">>,
      <<"r", "e", "t", "r", "y", ":", "5">>,
      <<":", "c">>,
      <<"z">>,
      <<>> }

RECURSIVE JoinLines(_)
JoinLines(lines) ==
    IF lines = <<>> THEN <<>>
    ELSE Head(lines) \o <<NL>> \o JoinLines(Tail(lines))

\* what a server may send before the stream ends: whole lines, or whole lines
\* with the last line end missing
SseStreams ==
    LET whole == UNION {[1..n -> SseLines] : n \in 0..MaxSseLines}
    IN  {JoinLines(ls) : ls \in whole}
            \cup {SubSeq(JoinLines(ls), 1, Len(JoinLines(ls)) - 1) : ls \in whole \ {<<>>}}

SSE ==
    [m_buffer |-> m_buffer, m_currentEventType |-> m_currentEventType,
     m_currentEventId |-> m_currentEventId, m_currentData |-> m_currentData,
     m_currentRetry |-> m_currentRetry, m_lastEventId |-> m_lastEventId,
     events |-> sseEvents]

\* the decoder of a client whose stream has just been opened
FreshSSE ==
    [m_buffer |-> <<>>, m_currentEventType |-> <<>>, m_currentEventId |-> <<>>,
     m_currentData |-> <<>>, m_currentRetry |-> -1, m_lastEventId |-> <<>>,
     events |-> <<>>]

SetSSE(d) ==
    /\ m_buffer' = d.m_buffer
    /\ m_currentEventType' = d.m_currentEventType
    /\ m_currentEventId' = d.m_currentEventId
    /\ m_currentData' = d.m_currentData
    /\ m_currentRetry' = d.m_currentRetry
    /\ m_lastEventId' = d.m_lastEventId
    /\ sseEvents' = d.events
    /\ UNCHANGED <<llmVars, mcpVars, chunkVars, m_chunks, ragVars, fnVars>>

\* QByteArray::indexOf: position of the first occurrence of c at or after
\* from, 0 when there is none
IndexOf(s, c, from) ==
    LET hits == {i \in from..Len(s) : s[i] = c}
    IN  IF hits = {} THEN 0 ELSE CHOOSE i \in hits : \A j \in hits : i <= j

\* m_buffer.indexOf("\n\n")
IndexOfBlockEnd(s) ==
    LET hits == {i \in 1..(Len(s) - 1) : s[i] = NL /\ s[i + 1] = NL}
    IN  IF hits = {} THEN 0 ELSE CHOOSE i \in hits : \A j \in hits : i <= j

\* QString::split('\n')
RECURSIVE Split(_)
Split(s) ==
    LET p == IndexOf(s, NL, 1)
    IN  IF p = 0 THEN <<s>>
        ELSE <<SubSeq(s, 1, p - 1)>> \o Split(SubSeq(s, p + 1, Len(s)))

Digits == {"0", "1", "2", "3", "4", "5", "6", "7", "8", "9"}
DigitValue(c) == CHOOSE v \in 0..9 : <<"0", "1", "2", "3", "4", "5", "6", "7", "8", "9">>[v + 1] = c
\* QString::toInt on a string of decimal digits
ToIntOk(value) == value # <<>> /\ \A i \in 1..Len(value) : value[i] \in Digits
RECURSIVE ToInt(_)
ToInt(value) ==
    IF value = <<>> THEN 0
    ELSE 10 * ToInt(SubSeq(value, 1, Len(value) - 1)) + DigitValue(value[Len(value)])

resetEventBuffer(d) ==
    [d EXCEPT !.m_currentEventType = <<>>, !.m_currentEventId = <<>>,
              !.m_currentData = <<>>, !.m_currentRetry = -1]

processSSEEvent(d, event) ==
    [d EXCEPT !.m_lastEventId = IF event.id # <<>> THEN event.id ELSE @,
              !.events = Append(@, event)]

\* one line of the loop of SSEClient::parseSSEData
ParseLine(d, line) ==
    LET colonPos == IndexOf(line, ":", 1)
        field == SubSeq(line, 1, colonPos - 1)
        raw == SubSeq(line, colonPos + 1, Len(line))
        value == IF raw # <<>> /\ raw[1] = " " THEN Tail(raw) ELSE raw
    IN  IF line = <<>> THEN d
        ELSE IF line[1] = ":" THEN d
        ELSE IF colonPos = 0 THEN d
        ELSE IF field = fEvent THEN [d EXCEPT !.m_currentEventType = value]
        ELSE IF field = fData
             THEN [d EXCEPT !.m_currentData =
                       (IF @ # <<>> THEN @ \o <<NL>> ELSE @) \o value]
        ELSE IF field = fId THEN [d EXCEPT !.m_currentEventId = value]
        ELSE IF field = fRetry
             THEN IF ToIntOk(value) THEN [d EXCEPT !.m_currentRetry = ToInt(value)] ELSE d
        ELSE d

RECURSIVE ParseLines(_, _)
ParseLines(d, lines) ==
    IF lines = <<>> THEN d ELSE ParseLines(ParseLine(d, Head(lines)), Tail(lines))

parseSSEData(d, data) ==
    LET d1 == ParseLines(d, Split(data))
    IN  IF d1.m_currentData # <<>> \/ d1.m_currentEventType # <<>>
           \/ d1.m_currentEventId # <<>>
        THEN resetEventBuffer(processSSEEvent(d1,
                 [eventType |-> IF d1.m_currentEventType = <<>> THEN MessageType
                                ELSE d1.m_currentEventType,
                  data |-> d1.m_currentData,
                  id |-> d1.m_currentEventId,
                  retry |-> d1.m_currentRetry]))
        ELSE d1

\* the while loop of SSEClient::handleReadyRead
RECURSIVE ProcessCompleteEvents(_)
ProcessCompleteEvents(d) ==
    LET eventEnd == IndexOfBlockEnd(d.m_buffer)
    IN  IF eventEnd = 0 THEN d
        ELSE ProcessCompleteEvents(
                 parseSSEData([d EXCEPT !.m_buffer = SubSeq(@, eventEnd + 2, Len(@))],
                              SubSeq(d.m_buffer, 1, eventEnd - 1)))

\* the same slot when it hands every read to the parser as it arrives
SSEClient_handleReadyReadUnbuffered(d, newData) ==
    parseSSEData(d, newData)

SSEClient_handleReadyRead(d, newData) ==
    ProcessCompleteEvents([d EXCEPT !.m_buffer = @ \o newData])

\* the decoding part of SSEClient::handleFinished
SSEClient_handleFinished(d) ==
    IF d.m_buffer # <<>>
    THEN [parseSSEData(d, d.m_buffer) EXCEPT !.m_buffer = <<>>]
    ELSE d

\* the events of a stream that arrives in a single read and then ends
DecodedWhole(stream) ==
    SSEClient_handleFinished(SSEClient_handleReadyRead(FreshSSE, stream)).events

\* no stream is being decoded
SSEIdle ==
    /\ sseStream = <<>>
    /\ ssePos = 0
    /\ sseOpen = FALSE
    /\ splitInBlock = FALSE
    /\ m_buffer = <<>>
    /\ m_currentEventType = <<>>
    /\ m_currentEventId = <<>>
    /\ m_currentData = <<>>
    /\ m_currentRetry = -1
    /\ m_lastEventId = <<>>
    /\ sseEvents = <<>>

\* a stream has just been opened by connectToStream
SSEInit ==
    /\ sseStream \in SseStreams
    /\ ssePos = 0
    /\ sseOpen = TRUE
    /\ splitInBlock = FALSE
    /\ m_buffer = <<>>
    /\ m_currentEventType = <<>>
    /\ m_currentEventId = <<>>
    /\ m_currentData = <<>>
    /\ m_currentRetry = -1
    /\ m_lastEventId = <<>>
    /\ sseEvents = <<>>

\* readyRead: the next n bytes of the stream have arrived
DecoderReadyRead(n) ==
    /\ sseOpen
    /\ ssePos + n <= Len(sseStream)
    /\ LET d == SSEClient_handleReadyRead(SSE, SubSeq(sseStream, ssePos + 1, ssePos + n))
       IN  /\ SetSSE(d)
           /\ splitInBlock' = (splitInBlock \/ (d.m_buffer # <<>> /\ ssePos + n < Len(sseStream)))
    /\ ssePos' = ssePos + n
    /\ UNCHANGED <<sseStream, sseOpen>>

\* finished: the server closed the stream after its last byte
DecoderFinished ==
    /\ sseOpen
    /\ ssePos = Len(sseStream)
    /\ SetSSE(SSEClient_handleFinished(SSE))
    /\ sseOpen' = FALSE
    /\ UNCHANGED <<sseStream, ssePos, splitInBlock>>

NextSSE ==
    \/ \E n \in 1..MaxSseBytes : DecoderReadyRead(n)
    \/ DecoderFinished

\* ================================================= RAGEngine chunking part
\* Texts are sequences of one-character strings; positions are 0-based as in
\* the code, so the character at position p is text[p + 1].
TextChars == {"a", " ", "."}
IsSpace(c) == c \in {" ", NL}
IsSentenceEnd(c) == c \in {".", "!", "?"}
Texts == UNION {[1..n -> TextChars] : n \in 1..MaxTextLen}

qMin(a, b) == IF a < b THEN a ELSE b

\* QString::lastIndexOf(rx, from): the greatest position <= from at which rx
\* matches, -1 when there is none
LastIndexWhere(hits) ==
    IF hits = {} THEN -1 ELSE CHOOSE p \in hits : \A q \in hits : q <= p
\* text.lastIndexOf(QRegExp("[.!?]\\s"), from)
LastSentenceBreak(text, from) ==
    LastIndexWhere({p \in 0..qMin(from, Len(text) - 2) :
                        IsSentenceEnd(text[p + 1]) /\ IsSpace(text[p + 2])})
\* text.lastIndexOf(QRegExp("\\s"), from)
LastWordBreak(text, from) ==
    LastIndexWhere({p \in 0..qMin(from, Len(text) - 1) : IsSpace(text[p + 1])})

\* QString::mid(position, n)
Mid(text, pos, n) == SubSeq(text, pos + 1, qMin(pos + n, Len(text)))

\* QString::trimmed
RECURSIVE TrimLeft(_)
TrimLeft(s) == IF s # <<>> /\ IsSpace(Head(s)) THEN TrimLeft(Tail(s)) ELSE s
RECURSIVE TrimRight(_)
TrimRight(s) ==
    IF s # <<>> /\ IsSpace(s[Len(s)]) THEN TrimRight(SubSeq(s, 1, Len(s) - 1)) ELSE s
trimmed(s) == TrimRight(TrimLeft(s))

\* where the window starting at position ends
ChunkEnd(text, start, chunkSize) ==
    LET chunkEnd == qMin(start + chunkSize, Len(text))
        sentenceBreak == LastSentenceBreak(text, chunkEnd)
        wordBreak == LastWordBreak(text, chunkEnd)
    IN  IF chunkEnd < Len(text)
        THEN IF sentenceBreak > start /\ (chunkEnd - sentenceBreak) < SentenceBreakWindow
             THEN sentenceBreak + 1
             ELSE IF wordBreak > start THEN wordBreak ELSE chunkEnd
        ELSE chunkEnd

\* where the next window starts
NextPosition(chunkEnd, chunkOverlap) ==
    IF chunkEnd - chunkOverlap < 0 THEN chunkEnd ELSE chunkEnd - chunkOverlap

\* one iteration of the loop of RAGEngine::chunkText; c holds the locals, the
\* windows taken so far and m_chunks
ChunkIteration(c, chunkSize, chunkOverlap, sourceFile) ==
    LET chunkEnd == ChunkEnd(c.text, c.position, chunkSize)
        chunk == trimmed(Mid(c.text, c.position, chunkEnd - c.position))
        c1 == [c EXCEPT !.windows = Append(@, [position |-> c.position,
                                               chunkEnd |-> chunkEnd,
                                               chunk |-> chunk])]
        c2 == IF chunk # <<>>
              THEN [c1 EXCEPT !.m_chunks = Append(@, [text |-> chunk,
                                                      sourceFile |-> sourceFile,
                                                      chunkIndex |-> c.chunkIndex]),
                              !.chunks = Append(@, chunk),
                              !.chunkIndex = @ + 1]
              ELSE c1
    IN  [c2 EXCEPT !.position = NextPosition(chunkEnd, chunkOverlap)]

\* chunkText is entered with a non-empty document
ChunkInit ==
    /\ chunkPc = "loop"
    /\ chunkInput \in Texts
    /\ m_chunkSize \in 1..MaxChunkSize
    /\ m_chunkOverlap \in 0..MaxChunkOverlap
    /\ position = 0
    /\ chunkIndex = 0
    /\ chunks = <<>>
    /\ windows = <<>>

\* no document is being chunked
ChunkIdle ==
    /\ chunkPc = "idle"
    /\ chunkInput = <<>>
    /\ m_chunkSize = 2
    /\ m_chunkOverlap = 0
    /\ position = 0
    /\ chunkIndex = 0
    /\ chunks = <<>>
    /\ windows = <<>>

\* the loop body runs once
ChunkLoopBody ==
    /\ chunkPc = "loop"
    /\ position < Len(chunkInput)
    /\ Len(windows) < MaxWindows
    /\ LET c == ChunkIteration([text |-> chunkInput, position |-> position,
                                chunkIndex |-> chunkIndex, chunks |-> chunks,
                                windows |-> windows, m_chunks |-> m_chunks],
                               m_chunkSize, m_chunkOverlap, "doc")
       IN  /\ position' = c.position
           /\ chunkIndex' = c.chunkIndex
           /\ chunks' = c.chunks
           /\ windows' = c.windows
           /\ m_chunks' = c.m_chunks
    /\ UNCHANGED <<chunkPc, chunkInput, m_chunkSize, m_chunkOverlap>>
    /\ UNCHANGED <<llmVars, mcpVars, sseVars, ragVars, fnVars>>

\* the loop condition fails and chunkText returns
ChunkReturn ==
    /\ chunkPc = "loop"
    /\ position >= Len(chunkInput)
    /\ chunkPc' = "returned"
    /\ UNCHANGED <<chunkInput, m_chunkSize, m_chunkOverlap, position, chunkIndex, chunks,
                   windows, m_chunks>>
    /\ UNCHANGED <<llmVars, mcpVars, sseVars, ragVars, fnVars>>

NextChunk ==
    \/ ChunkLoopBody
    \/ ChunkReturn

\* ================================================== RAGEngine retrieval part
NoIndex == [exists |-> FALSE, vectors |-> <<>>]
DefaultEmbeddingDimension == 768

\* the engine after construction
RAGInit ==
    /\ m_chunks = <<>>
    /\ m_documents = <<>>
    /\ m_embeddings = <<>>
    /\ m_index = NoIndex
    /\ m_embeddingDimension = DefaultEmbeddingDimension
    /\ m_pendingEmbeddings = {}
    /\ ragReplies = {}
    /\ nextRagReply = 1
    /\ ragSignals = <<>>
    /\ ragQueries = <<>>
    /\ clearedAt = <<>>

\* the files the host may ingest and their contents
DocumentFiles == {"A.txt", "B.txt"}
ContentOf(filePath) ==
    IF filePath = "A.txt" THEN <<"a", "b", "c", "d">> ELSE <<"e", "f">>
Queries == {<<"b", "b">>, <<"e", "e">>}
TopKs == {1, 3}

\* the embedding endpoint: one number per character, summed, as a vector of
\* one component
CharCode(c) ==
    CASE c = "a" -> 0 [] c = "b" -> 1 [] c = "c" -> 2 [] c = "d" -> 3
      [] c = "e" -> 4 [] c = "f" -> 5 [] OTHER -> 6
RECURSIVE CodeSum(_)
CodeSum(s) == IF s = <<>> THEN 0 ELSE CharCode(Head(s)) + CodeSum(Tail(s))
EmbeddingOf(prompt) == <<CodeSum(prompt)>>
EmbeddingOutcomes == {"embedding", "error", "invalid"}

\* squared Euclidean distance of two vectors of the same length
RECURSIVE SquaredDistance(_, _)
SquaredDistance(u, v) ==
    IF u = <<>> \/ v = <<>> THEN 0
    ELSE (Head(u) - Head(v)) * (Head(u) - Head(v)) + SquaredDistance(Tail(u), Tail(v))

RAG ==
    [m_chunkSize |-> m_chunkSize, m_chunkOverlap |-> m_chunkOverlap,
     m_chunks |-> m_chunks, m_documents |-> m_documents, m_embeddings |-> m_embeddings,
     m_index |-> m_index, m_embeddingDimension |-> m_embeddingDimension,
     m_pendingEmbeddings |-> m_pendingEmbeddings, haveFaiss |-> haveFaiss,
     ragReplies |-> ragReplies, nextRagReply |-> nextRagReply,
     ragSignals |-> ragSignals, ragQueries |-> ragQueries, clearedAt |-> clearedAt]

SetRAG(r) ==
    /\ m_chunks' = r.m_chunks
    /\ m_documents' = r.m_documents
    /\ m_embeddings' = r.m_embeddings
    /\ m_index' = r.m_index
    /\ m_embeddingDimension' = r.m_embeddingDimension
    /\ m_pendingEmbeddings' = r.m_pendingEmbeddings
    /\ ragReplies' = r.ragReplies
    /\ nextRagReply' = r.nextRagReply
    /\ ragSignals' = r.ragSignals
    /\ ragQueries' = r.ragQueries
    /\ clearedAt' = r.clearedAt
    /\ UNCHANGED <<haveFaiss, chunkVars, llmVars, mcpVars, sseVars, fnVars>>

RagEmit(r, signal) == [r EXCEPT !.ragSignals = Append(@, signal)]

\* RAGEngine::chunkText run to its return
RECURSIVE ChunkLoop(_, _, _, _)
ChunkLoop(c, chunkSize, chunkOverlap, sourceFile) ==
    IF c.position < Len(c.text)
    THEN ChunkLoop(ChunkIteration(c, chunkSize, chunkOverlap, sourceFile),
                   chunkSize, chunkOverlap, sourceFile)
    ELSE c
chunkText(r, content, sourceFile) ==
    ChunkLoop([text |-> content, position |-> 0, chunkIndex |-> 0, chunks |-> <<>>,
               windows |-> <<>>, m_chunks |-> r.m_chunks],
              r.m_chunkSize, r.m_chunkOverlap, sourceFile)

\* RAGEngine::generateEmbedding; ofChunk is the place in m_chunks of the chunk
\* whose text is sent
generateEmbedding(r, prompt, index, ofChunk) ==
    [r EXCEPT !.m_pendingEmbeddings = @ \cup {index},
              !.ragReplies = @ \cup {[reply |-> r.nextRagReply, kind |-> "chunk",
                                      prompt |-> prompt, chunkIndex |-> index,
                                      ofChunk |-> ofChunk, topK |-> 0, query |-> 0]},
              !.nextRagReply = @ + 1]

\* the loop of RAGEngine::ingestDocument over the new chunks, from chunk i on
RECURSIVE GenerateEmbeddings(_, _, _, _)
GenerateEmbeddings(r, newChunks, i, sizeBefore) ==
    IF i >= Len(newChunks) THEN r
    ELSE GenerateEmbeddings(
             generateEmbedding(
                 RagEmit(r, [signal |-> "ingestionProgress", current |-> i + 1,
                             total |-> Len(newChunks)]),
                 newChunks[i + 1], Len(r.m_chunks) + i, sizeBefore + i),
             newChunks, i + 1, sizeBefore)

ingestDocument(r, filePath) ==
    LET c == chunkText(r, ContentOf(filePath), filePath)
        r1 == [r EXCEPT !.m_chunks = c.m_chunks,
                        !.m_documents = [f \in DOMAIN @ \cup {filePath} |->
                                            IF f = filePath THEN Len(c.chunks) ELSE @[f]]]
        r2 == GenerateEmbeddings(r1, c.chunks, 0, Len(r.m_chunks))
    IN  RagEmit(r2, [signal |-> "documentIngested", filePath |-> filePath,
                     chunkCount |-> Len(c.chunks)])

NoEmbedding == [vec |-> <<>>, ofChunk |-> -1]

\* QVector::resize followed by the assignment of element index
StoreAt(embeddings, index, entry) ==
    [i \in 1..(IF index >= Len(embeddings) THEN index + 1 ELSE Len(embeddings)) |->
        IF i = index + 1 THEN entry
        ELSE IF i <= Len(embeddings) THEN embeddings[i] ELSE NoEmbedding]

\* faiss::IndexFlatL2::add(1, x) copies d floats starting at x, d being the
\* dimension the index was built with: a longer vector is cut, and behind a
\* shorter one it reads whatever lies beyond the buffer
ReadByIndex(d, vec, beyond) ==
    [i \in 1..d |-> IF i <= Len(vec) THEN vec[i] ELSE beyond]

addEmbeddingToIndexRead(r, entry, index, beyond) ==
    [r EXCEPT !.m_embeddings = StoreAt(@, index, entry),
              !.m_index.vectors =
                  IF r.m_index.exists /\ r.haveFaiss
                  THEN Append(@, [entry EXCEPT !.vec = ReadByIndex(r.m_embeddingDimension,
                                                                   @, beyond)])
                  ELSE @]

addEmbeddingToIndex(r, entry, index) == addEmbeddingToIndexRead(r, entry, index, 0)

\* handleEmbeddingResponse for a response carrying this embedding array
handleEmbeddingResponseWith(r, reply, outcome, embedding, beyond) ==
    LET r0 == [r EXCEPT !.ragReplies = @ \ {reply}]
        r1 == IF ~r0.m_index.exists
              THEN [r0 EXCEPT !.m_embeddingDimension = Len(embedding), !.m_index = [exists |-> TRUE, vectors |-> <<>>]]
              ELSE r0
        r2 == addEmbeddingToIndexRead(r1, [vec |-> embedding, ofChunk |-> reply.ofChunk],
                                      reply.chunkIndex, beyond)
    IN  IF outcome # "embedding"
        THEN [r0 EXCEPT !.m_pendingEmbeddings = @ \ {reply.chunkIndex}]
        ELSE RagEmit([r2 EXCEPT !.m_pendingEmbeddings = @ \ {reply.chunkIndex}],
                     [signal |-> "embeddingGenerated", chunkIndex |-> reply.chunkIndex])

handleEmbeddingResponse(r, reply, outcome) ==
    handleEmbeddingResponseWith(r, reply, outcome, EmbeddingOf(reply.prompt), 0)

generateQueryEmbedding(r, prompt, topK, query) ==
    [r EXCEPT !.ragReplies = @ \cup {[reply |-> r.nextRagReply, kind |-> "query",
                                      prompt |-> prompt, chunkIndex |-> 0,
                                      ofChunk |-> 0, topK |-> topK, query |-> query]},
              !.nextRagReply = @ + 1]

\* the successful embedding replies handled so far
EmbeddingsCompleted(r) ==
    Len(SelectSeq(r.ragSignals, LAMBDA s : s.signal = "embeddingGenerated"))

\* RAGEngine::retrieveContext without the test of m_embeddings
retrieveContextUnguarded(r, prompt, topK) ==
    LET query == Len(r.ragQueries) + 1
        called == [prompt |-> prompt, topK |-> topK, chunksThen |-> Len(r.m_chunks),
                   completedThen |-> EmbeddingsCompleted(r)]
        r1 == [r EXCEPT !.ragQueries = Append(@, called)]
    IN  IF r.m_chunks = <<>>
        THEN RagEmit(r1, [signal |-> "queryError", error |-> "No documents ingested yet",
                          query |-> query])
        ELSE generateQueryEmbedding(r1, prompt, topK, query)

retrieveContext(r, prompt, topK) ==
    LET query == Len(r.ragQueries) + 1
        called == [prompt |-> prompt, topK |-> topK, chunksThen |-> Len(r.m_chunks),
                   completedThen |-> EmbeddingsCompleted(r)]
        r1 == [r EXCEPT !.ragQueries = Append(@, called)]
    IN  IF r.m_chunks = <<>>
        THEN RagEmit(r1, [signal |-> "queryError", error |-> "No documents ingested yet",
                          query |-> query])
        ELSE IF r.m_embeddings = <<>>
        THEN RagEmit(r1, [signal |-> "queryError", error |-> "Embeddings not ready yet",
                          query |-> query])
        ELSE generateQueryEmbedding(r1, prompt, topK, query)

\* faiss::IndexFlatL2::search: the labels of the k nearest stored vectors by
\* squared distance, nearest first, padded with -1
RECURSIVE NearestLabels(_, _, _, _)
NearestLabels(vectors, q, k, taken) ==
    LET left == (1..Len(vectors)) \ taken
        best == CHOOSE i \in left : \A j \in left :
                    \/ SquaredDistance(vectors[i].vec, q) < SquaredDistance(vectors[j].vec, q)
                    \/ /\ SquaredDistance(vectors[i].vec, q) = SquaredDistance(vectors[j].vec, q)
                       /\ i <= j
    IN  IF k = 0 THEN <<>>
        ELSE IF left = {} THEN <<-1>> \o NearestLabels(vectors, q, k - 1, taken)
        ELSE <<best - 1>> \o NearestLabels(vectors, q, k - 1, taken \cup {best})

\* the labels left in the buffer by the search of the build without FAISS
StubLabels(k) == [i \in 1..k |-> 0]

searchSimilar(r, queryEmbedding, topK) ==
    LET indices == IF r.haveFaiss THEN NearestLabels(r.m_index.vectors, queryEmbedding, topK, {})
                   ELSE StubLabels(topK)
    IN  IF ~r.m_index.exists \/ r.m_embeddings = <<>> THEN <<>>
        ELSE SelectSeq(indices, LAMBDA idx : idx >= 0 /\ idx < Len(r.m_chunks))

handleQueryEmbeddingResponse(r, reply, outcome) ==
    LET r0 == [r EXCEPT !.ragReplies = @ \ {reply}]
        indices == searchSimilar(r0, EmbeddingOf(reply.prompt), reply.topK)
        valid == SelectSeq(indices, LAMBDA idx : idx >= 0 /\ idx < Len(r0.m_chunks))
    IN  IF outcome = "error"
        THEN RagEmit(r0, [signal |-> "queryError",
                          error |-> "Query embedding generation failed", query |-> reply.query])
        ELSE IF outcome = "invalid"
        THEN RagEmit(r0, [signal |-> "queryError",
                          error |-> "Invalid query embedding response", query |-> reply.query])
        ELSE RagEmit(r0, [signal |-> "contextRetrieved",
                          contexts |-> [i \in 1..Len(valid) |-> r0.m_chunks[valid[i] + 1].text],
                          indices |-> valid,
                          query |-> reply.query,
                          chunksThen |-> Len(r0.m_chunks)])

\* a fresh engine of either build, configured with a window of 2 and no overlap
RAGStart ==
    /\ RAGInit
    /\ ChunkIdle
    /\ haveFaiss \in BOOLEAN

HostIngestDocument(filePath) ==
    /\ Cardinality({i \in 1..Len(ragSignals) : ragSignals[i].signal = "documentIngested"})
           < MaxIngests
    /\ SetRAG(ingestDocument(RAG, filePath))

HostRetrieveContext(prompt, topK) ==
    /\ Len(ragQueries) < MaxQueries
    /\ SetRAG(retrieveContext(RAG, prompt, topK))

EmbeddingReplyFinished(reply, outcome) ==
    /\ reply \in ragReplies
    /\ reply.kind = "chunk"
    /\ SetRAG(handleEmbeddingResponse(RAG, reply, outcome))

QueryEmbeddingReplyFinished(reply, outcome) ==
    /\ reply \in ragReplies
    /\ reply.kind = "query"
    /\ SetRAG(handleQueryEmbeddingResponse(RAG, reply, outcome))

\* RAGEngine::clearDocuments; the replies in flight are left alone
clearDocuments(r) ==
    [r EXCEPT !.m_chunks = <<>>,
              !.m_embeddings = <<>>,
              !.m_documents = <<>>,
              !.m_pendingEmbeddings = {},
              !.m_index = IF @.exists THEN [exists |-> TRUE, vectors |-> <<>>] ELSE @,
              !.clearedAt = Append(@, r.nextRagReply)]

HostClearDocuments ==
    /\ Len(clearedAt) < MaxDocumentClears
    /\ SetRAG(clearDocuments(RAG))

NextClear ==
    \/ \E filePath \in DocumentFiles : HostIngestDocument(filePath)
    \/ HostClearDocuments
    \/ \E reply \in ragReplies, outcome \in EmbeddingOutcomes :
           EmbeddingReplyFinished(reply, outcome)

\* ---- an embedding endpoint whose answers vary in dimensionality
EmbeddingArrays == {<<1>>, <<1, 2>>, <<3, 4>>, <<5, 6, 7>>}
\* what a read beyond the end of a short vector can find
BeyondValues == {0, 9}

EmbeddingArrives(reply, outcome, embedding, beyond) ==
    /\ reply \in ragReplies
    /\ reply.kind = "chunk"
    /\ outcome = "embedding" \/ (embedding = <<1>> /\ beyond = 0)
    /\ Len(embedding) >= m_embeddingDimension \/ ~m_index.exists => beyond = 0
    /\ SetRAG(handleEmbeddingResponseWith(RAG, reply, outcome, embedding, beyond))

NextDimension ==
    \/ \E filePath \in DocumentFiles : HostIngestDocument(filePath)
    \/ \E reply \in ragReplies, outcome \in EmbeddingOutcomes,
          embedding \in EmbeddingArrays, beyond \in BeyondValues :
           EmbeddingArrives(reply, outcome, embedding, beyond)

NextRAG ==
    \/ \E filePath \in DocumentFiles : HostIngestDocument(filePath)
    \/ \E prompt \in Queries, topK \in TopKs : HostRetrieveContext(prompt, topK)
    \/ \E reply \in ragReplies, outcome \in EmbeddingOutcomes :
           EmbeddingReplyFinished(reply, outcome)
    \/ \E reply \in ragReplies, outcome \in EmbeddingOutcomes :
           QueryEmbeddingReplyFinished(reply, outcome)

\* ======================================== functions of the session client
NotReturned == [returned |-> FALSE, value |-> 0]
Repeat(c, n) == [i \in 1..n |-> c]

\* texts made of a run of letters, a run of spaces, a run of line ends and tabs
EstimatedTexts ==
    {Repeat("a", a) \o Repeat(" ", s) \o Repeat(NL, n) \o Repeat("\t", b) :
        a \in 0..MaxRun, s \in 0..MaxRun, n \in {0, 1, MaxRun}, b \in 0..MaxTabs}

\* configured window sizes around the point where nothing is left for history
WindowSizes == {250, 295, 320, 350, 375, 400}
HistoryContents == {Repeat("a", 0), Repeat("a", 8), Repeat("a", 12)}
HistoryMessages ==
    {Message(role, content, FALSE) : role \in {"user", "assistant"}, content \in HistoryContents}
Histories == UNION {[1..n -> HistoryMessages] : n \in 0..MaxHistory}
CurrentMessages == {Repeat("a", 2), Repeat("a", 16)}

\* no function is being applied
FnIdle ==
    /\ fnName = "none"
    /\ fnArgs = <<>>
    /\ fnResult = NotReturned

\* estimateTokens is about to be applied to a text
FnInitEstimate ==
    /\ fnName = "estimateTokens"
    /\ fnArgs \in {[text |-> text] : text \in EstimatedTexts}
    /\ fnResult = NotReturned

\* pruneMessageHistoryForContext is about to be applied to a history
FnInitPrune ==
    /\ fnName = "pruneMessageHistoryForContext"
    /\ fnArgs \in {[contextWindowSize |-> size, history |-> history,
                    currentUserMessage |-> current] :
                      size \in WindowSizes, history \in Histories,
                      current \in CurrentMessages}
    /\ fnResult = NotReturned

ApplyEstimateTokens ==
    /\ fnName = "estimateTokens"
    /\ ~fnResult.returned
    /\ fnResult' = [returned |-> TRUE, value |-> estimateTokens(fnArgs.text)]
    /\ UNCHANGED <<fnName, fnArgs, llmVars, mcpVars, sseVars, chunkVars, m_chunks, ragVars>>

ApplyPruneMessageHistory ==
    /\ fnName = "pruneMessageHistoryForContext"
    /\ ~fnResult.returned
    /\ fnResult' = [returned |-> TRUE,
                    value |-> PruneHistory(fnArgs.contextWindowSize,
                                           TokensOf(SystemPromptChars, SystemPromptSpaces),
                                           fnArgs.history, fnArgs.currentUserMessage)]
    /\ UNCHANGED <<fnName, fnArgs, llmVars, mcpVars, sseVars, chunkVars, m_chunks, ragVars>>

\* ---- processToolCalls on the response of a prompt-injected exchange
\* The tools a host declares, by name, and the top-level keys of each tool's
\* parameters object.
DeclaredToolNames == {"calculator", "clock", "datetime"}
ParametersOf(name) ==
    CASE name = "calculator" -> {"operation", "a", "b"}
      [] name = "clock" -> {"format", "zone"}
      [] name = "datetime" -> {"format"}
\* the order of QString keys in a QMap
NamesAscending == <<"calculator", "clock", "datetime">>
\* registration sequences: distinct tools, in the order registerTool was called
Registrations ==
    {r \in UNION {[1..n -> DeclaredToolNames] : n \in 0..MaxDeclaredTools} :
        \A i, j \in 1..Len(r) : i # j => r[i] # r[j]}

\* MCPHandler::getToolsForLLM when it lists the tools in registration order
getToolsForLLMAsRegistered(registered) ==
    [i \in 1..Len(registered) |->
        [name |-> registered[i], parameters |-> ParametersOf(registered[i])]]

\* MCPHandler::getToolsForLLM: the loop over the QMap m_tools visits the tools
\* in ascending order of their names
getToolsForLLM(registered) ==
    LET held == SelectSeq(NamesAscending,
                          LAMBDA name : \E i \in 1..Len(registered) : registered[i] = name)
    IN  [i \in 1..Len(held) |-> [name |-> held[i], parameters |-> ParametersOf(held[i])]]

\* A response: plain text, text holding the {"tool_call": marker around a name,
\* or text that is one JSON object, given by its top-level keys and by
\* obj["name"].toString() ("" when the member is absent, empty or no string).
ResponseKeys == {"format", "zone", "a", "name", "parameters"}
Responses ==
    {[kind |-> "text", keys |-> {}, name |-> ""]}
    \cup {[kind |-> "marker", keys |-> {"tool_call"}, name |-> name] :
            name \in {"", "datetime"}}
    \cup {[kind |-> "object", keys |-> keys, name |-> name] :
            keys \in SUBSET ResponseKeys, name \in {"", "datetime"}}

NoCall == [detected |-> FALSE, toolName |-> ""]
Call(toolName) == [detected |-> TRUE, toolName |-> toolName]

\* the loop over m_currentTools of the heuristic: the first tool whose keys hold
\* at least one and at least 70% of the response's keys (matchCount >=
\* responseKeys.size() * 0.7 is exact for the sizes explored)
RECURSIVE MatchKnownTool(_, _)
MatchKnownTool(tools, responseKeys) ==
    IF tools = <<>> THEN NoCall
    ELSE LET matchCount == Cardinality(responseKeys \cap Head(tools).parameters)
         IN  IF matchCount > 0 /\ 10 * matchCount >= 7 * Cardinality(responseKeys)
             THEN Call(Head(tools).name)
             ELSE MatchKnownTool(Tail(tools), responseKeys)

\* LLMClient::processToolCalls: what it emits as toolCallRequested, if anything
DetectToolCall(toolsEnabled, currentTools, response) ==
    IF ~toolsEnabled THEN NoCall
    ELSE IF response.kind = "marker"
    THEN IF response.name # "" THEN Call(response.name) ELSE NoCall
    ELSE IF response.kind # "object" THEN NoCall
    ELSE IF "name" \in response.keys /\ "parameters" \in response.keys
            /\ response.name # ""
    THEN Call(response.name)
    ELSE MatchKnownTool(currentTools, response.keys)

\* processToolCalls is about to be applied to a response, with the tools array
\* the host took from the registry when it sent the prompt
FnInitDetect ==
    /\ fnName = "processToolCalls"
    /\ fnArgs \in {[toolsEnabled |-> enabled, registered |-> registered,
                    response |-> response] :
                      enabled \in BOOLEAN, registered \in Registrations,
                      response \in Responses}
    /\ fnResult = NotReturned

ApplyProcessToolCalls ==
    /\ fnName = "processToolCalls"
    /\ ~fnResult.returned
    /\ fnResult' = [returned |-> TRUE,
                    value |-> DetectToolCall(fnArgs.toolsEnabled,
                                             getToolsForLLM(fnArgs.registered),
                                             fnArgs.response)]
    /\ UNCHANGED <<fnName, fnArgs, llmVars, mcpVars, sseVars, chunkVars, m_chunks, ragVars>>

\* ---- the classification of a successful capability probe
InfoTexts == MarkerTexts \cup {"Tool", "llama"}

FnInitClassify ==
    /\ fnName = "handleModelInfoReply"
    /\ fnArgs \in {[kind |-> "object", modelfile |-> m, template |-> t, details |-> d,
                    model |-> ConfiguredModel] :
                      m \in InfoTexts, t \in InfoTexts, d \in InfoTexts}
    /\ fnResult = NotReturned

ApplyHandleModelInfoReply ==
    /\ fnName = "handleModelInfoReply"
    /\ ~fnResult.returned
    /\ fnResult' = [returned |-> TRUE,
                    value |-> handleModelInfoReply(LLM, fnArgs).m_toolCallFormat]
    /\ UNCHANGED <<fnName, fnArgs, llmVars, mcpVars, sseVars, chunkVars, m_chunks, ragVars>>

\* ------------------------------------------------------ specifications
Init == LLMInit /\ MCPInit /\ SSEIdle /\ ChunkIdle /\ RAGInit /\ haveFaiss = TRUE /\ FnIdle
\* the session client as shipped: a valid URL and the default retry limit
InitAsShipped == Init /\ m_apiUrlValid /\ m_maxRetries = DefaultMaxRetries

SpecLLM == Init /\ [][NextLLM]_vars
\* a followed session of a client with a valid URL and one retry
InitSession == Init /\ m_apiUrlValid /\ m_maxRetries = 1
SpecSession == InitSession /\ [][NextSession]_vars
SpecHttpTool == InitAsShipped /\ [][NextHttpTool]_vars
SpecMCP == InitAsShipped /\ [][NextMCP]_vars
\* registrations on a fresh handler
SpecRegistry == InitAsShipped /\ [][NextRegistry]_vars
\* clearing and discovery on a handler whose host registers tools
SpecDiscovery == InitAsShipped /\ [][NextDiscovery]_vars
\* one SSE connection, from its first byte to the end of the stream
InitSSE == LLMInit /\ m_apiUrlValid /\ m_maxRetries = DefaultMaxRetries /\ MCPInit /\ SSEInit
           /\ ChunkIdle /\ RAGInit /\ haveFaiss = TRUE /\ FnIdle
SpecSSE == InitSSE /\ [][NextSSE]_vars
\* one call of chunkText on a fresh engine
InitChunk == LLMInit /\ m_apiUrlValid /\ m_maxRetries = DefaultMaxRetries /\ MCPInit /\ SSEIdle
             /\ RAGInit /\ haveFaiss = TRUE /\ ChunkInit /\ FnIdle
SpecChunk == InitChunk /\ [][NextChunk]_vars
\* ingestion and retrieval on a fresh engine
InitRAG == LLMInit /\ m_apiUrlValid /\ m_maxRetries = DefaultMaxRetries /\ MCPInit /\ SSEIdle
           /\ RAGStart /\ FnIdle
SpecRAG == InitRAG /\ [][NextRAG]_vars
SpecDimension == InitRAG /\ [][NextDimension]_vars
SpecClear == InitRAG /\ [][NextClear]_vars
\* one application of estimateTokens
InitEstimate == LLMInit /\ m_apiUrlValid /\ m_maxRetries = DefaultMaxRetries /\ MCPInit
                /\ SSEIdle /\ ChunkIdle /\ RAGInit /\ haveFaiss = TRUE /\ FnInitEstimate
SpecEstimate == InitEstimate /\ [][ApplyEstimateTokens]_vars
\* one application of pruneMessageHistoryForContext
InitPrune == LLMInit /\ m_apiUrlValid /\ m_maxRetries = DefaultMaxRetries /\ MCPInit
             /\ SSEIdle /\ ChunkIdle /\ RAGInit /\ haveFaiss = TRUE /\ FnInitPrune
SpecPrune == InitPrune /\ [][ApplyPruneMessageHistory]_vars
\* one application of processToolCalls
InitDetect == LLMInit /\ m_apiUrlValid /\ m_maxRetries = DefaultMaxRetries /\ MCPInit
              /\ SSEIdle /\ ChunkIdle /\ RAGInit /\ haveFaiss = TRUE /\ FnInitDetect
SpecDetect == InitDetect /\ [][ApplyProcessToolCalls]_vars
InitClassify == LLMInit /\ m_apiUrlValid /\ m_maxRetries = DefaultMaxRetries /\ MCPInit
                /\ SSEIdle /\ ChunkIdle /\ RAGInit /\ haveFaiss = TRUE /\ FnInitClassify
SpecClassify == InitClassify /\ [][ApplyHandleModelInfoReply]_vars

\* ============================================================ properties
\* the prompt requests a handler posted, in program order
PromptPosts(effs) == SelectSeq(effs, LAMBDA e : e.what = "post" /\ e.name # "show")
EmittedIn(effs, signal) == \E i \in 1..Len(effs) : effs[i].what = "emit" /\ effs[i].name = signal
\* nothing is in flight and no timer is armed: only the host can act
Quiescent == ~initTimer /\ net = {} /\ retryTimers = <<>>

\* C1: while capability detection is outstanding no prompt request is posted;
\* the step that completes detection posts every queued call exactly once, in
\* the order the calls were made, each with the payload of its own prompt, and
\* leaves the queue empty; no call goes past the queue gate twice.
C1_QueueDrainStep ==
    /\ PromptPosts(effects') # <<>> => m_capabilitiesDetected'
    /\ m_capabilitiesDetected' => m_pendingRequests' = <<>>
    /\ \A c \in 1..MaxCalls : issued'[c] <= 1
    /\ (~m_capabilitiesDetected /\ m_capabilitiesDetected') =>
          LET posts == PromptPosts(effects')
          IN  /\ Len(posts) = Len(m_pendingRequests)
              /\ \A i \in 1..Len(posts) :
                    /\ posts[i].call = m_pendingRequests[i].call
                    /\ issued'[posts[i].call] = 1
                    /\ posts[i].arg.prompt = FullPrompt(m_pendingRequests[i].prompt,
                                                        m_pendingRequests[i].context)
C1_QueuedCallsReplayedInOrder == [][C1_QueueDrainStep]_vars
\* two calls were queued and the detection step has just replayed both
C1_TwoQueuedCallsDrained ==
    /\ m_capabilitiesDetected
    /\ EmittedIn(effects, "modelCapabilitiesDetected")
    /\ Len(PromptPosts(effects)) = 2
    /\ PromptPosts(effects)[1].call = 1
    /\ PromptPosts(effects)[2].call = 2

\* C2: once the capability probe has ended in a transport failure no prompt
\* stays queued: when nothing is in flight any more, the queue is empty.
C2_ProbeFailureLeavesNothingQueued ==
    (probeResult = "error" /\ Quiescent) => m_pendingRequests = <<>>

\* C3: a resend is scheduled right after retryAttempt(n, maxRetries) with
\* n in 1..maxRetries and with delay base * 2^(n-1), and the payload of one
\* exchange is never resent more than maxRetries times.
C3_BackoffScheduleAndBudget ==
    /\ \A i \in 1..Len(effects) :
          (effects[i].what = "timer" /\ effects[i].name = "retryRequest") =>
             /\ i > 1
             /\ effects[i - 1] = Effect("emit", "retryAttempt",
                                        <<m_currentRetryCount, m_maxRetries>>, 0)
             /\ m_currentRetryCount \in 1..m_maxRetries
             /\ effects[i].arg = m_retryDelay * 2^(m_currentRetryCount - 1)
    /\ \A c \in 1..MaxCalls : resends[c] <= m_maxRetries

\* C4: a handler that announces a retry surfaces no error, and a handler that
\* surfaces the terminal transport error schedules no resend.
C4_ErrorOnlyWhenTerminal ==
    /\ EmittedIn(effects, "retryAttempt") => ~EmittedIn(effects, "errorOccurred")
    /\ EmittedIn(effects, "errorOccurred") =>
          ~\E i \in 1..Len(effects) : effects[i].what = "timer"
                                      /\ effects[i].name = "retryRequest"

\* the reports emitted for the id generated in invocation c
ReportsOf(c) == {i \in 1..Len(reports) : reports[i].owner = c}

\* C5: for the call id of any one invocation at most one report
\* (toolCallCompleted or toolCallFailed) is ever emitted.
C5_AtMostOneTerminalReport ==
    \A c \in 1..MaxToolCalls : Cardinality(ReportsOf(c)) <= 1

\* C6: an invocation naming an unregistered tool returns a non-empty id and is
\* reported exactly once, by toolCallFailed with that id, that name and an error
\* containing "not found"; the session client surfaces no error.
C6_UnregisteredToolFails ==
    \A c \in 1..Len(returnedCalls) :
        returnedCalls[c].kind = "none" =>
            /\ returnedCalls[c].id # ""
            /\ Cardinality(ReportsOf(c)) = 1
            /\ \A i \in ReportsOf(c) :
                  /\ reports[i].signal = "toolCallFailed"
                  /\ reports[i].id = returnedCalls[c].id
                  /\ reports[i].name = returnedCalls[c].name
                  /\ ContainsNotFound(reports[i].error)
            /\ ~EmittedIn(effects, "errorOccurred")
\* executeToolCall("missing_tool") has returned and has been reported
C6_MissingToolCalled ==
    \E c \in 1..Len(returnedCalls) :
        /\ returnedCalls[c].name = "missing_tool"
        /\ returnedCalls[c].kind = "none"
        /\ ReportsOf(c) # {}

\* C7: no report carrying an invocation's id is emitted while that invocation
\* of executeToolCall is still on the call stack.
C7_ReportedAfterReturn ==
    \A i \in 1..Len(reports) : reports[i].during # reports[i].owner

\* C8: a report emitted for the reply to an HTTP request carries the call id
\* and the tool name executeToolCall returned for that request, whatever the
\* order in which the outstanding replies finish.
C8_HttpReplyAttributed ==
    \A i \in 1..Len(reports) :
        LET c == reports[i].answers
        IN  (c \in 1..Len(returnedCalls) /\ returnedCalls[c].kind = "HTTP") =>
                /\ reports[i].id = returnedCalls[c].id
                /\ reports[i].name = returnedCalls[c].name
                /\ reports[i].owner = c
\* two HTTP calls with different ids were outstanding and the later one was
\* answered first
C8_RepliesOutOfOrder ==
    \E i, j \in 1..Len(reports) :
        /\ i < j
        /\ reports[i].during = 0 /\ reports[j].during = 0
        /\ reports[i].answers > reports[j].answers
        /\ returnedCalls[reports[i].answers].kind = "HTTP"
        /\ returnedCalls[reports[j].answers].kind = "HTTP"
        /\ reports[i].id # reports[j].id

\* C9: the ids returned by any two invocations of executeToolCall differ.
C9_CallIdsDistinct ==
    \A c1, c2 \in 1..Len(returnedCalls) :
        c1 # c2 => returnedCalls[c1].id # returnedCalls[c2].id

\* C10: an invocation of a Local tool whose function throws still returns its
\* id, and is reported exactly once, by toolCallFailed with that id and name.
C10_LocalFaultReportedAsFailure ==
    /\ crashed \/ Len(returnedCalls) = invocations
    /\ \A c \in 1..Len(returnedCalls) :
          (returnedCalls[c].kind = "Local" /\ returnedCalls[c].outcome # "result") =>
              /\ returnedCalls[c].id # ""
              /\ Cardinality(ReportsOf(c)) = 1
              /\ \A i \in ReportsOf(c) :
                    /\ reports[i].signal = "toolCallFailed"
                    /\ reports[i].id = returnedCalls[c].id
                    /\ reports[i].name = returnedCalls[c].name
\* a Local tool threw, once a std::exception and once something else
C10_LocalToolThrew ==
    \E c1, c2 \in 1..Len(returnedCalls) :
        /\ returnedCalls[c1].kind = "Local" /\ returnedCalls[c1].outcome = "std::exception"
        /\ returnedCalls[c2].kind = "Local" /\ returnedCalls[c2].outcome = "other"
        /\ ReportsOf(c1) # {} /\ ReportsOf(c2) # {}

\* C11: the end of an SSE stream (close or error) on which no terminal event
\* had arrived reports exactly one toolCallFailed, for the call that opened
\* the stream; the end of a stream that had delivered a terminal event reports
\* no failure.
C11_StreamEndFailsItsCallOnce ==
    \A k \in 1..Len(sseCloses) :
        IF sseCloses[k].terminal
        THEN sseCloses[k].failedOwners = <<>>
        ELSE sseCloses[k].failedOwners = <<sseCloses[k].call>>

\* C12: however the bytes of a stream are split into reads, the events
\* emitted so far are a prefix of the events of the same stream read at once,
\* and when the stream has ended they are exactly those events.
C12_SplitReadsDecodeAlike ==
    LET whole == DecodedWhole(sseStream)
    IN  /\ Len(sseEvents) <= Len(whole)
        /\ sseEvents = SubSeq(whole, 1, Len(sseEvents))
        /\ ~sseOpen => sseEvents = whole
\* a stream of two events has ended after a read that stopped inside a block
C12_BlockSplitAcrossReads ==
    /\ ~sseOpen
    /\ splitInBlock
    /\ Len(sseEvents) = 2

\* C13: every iteration of the chunking loop starts its window strictly after
\* the start of the previous one, for every chunk size > 0 and overlap >= 0.
C13_WindowStartAdvances ==
    [][Len(windows') > Len(windows) => position' > position]_vars

\* the part of the chunk of window k that lies after the previous window
FreshRegion(k) ==
    LET before == IF k = 1 THEN 0 ELSE windows[k - 1].chunkEnd - windows[k].position
    IN  SubSeq(windows[k].chunk, before + 1, Len(windows[k].chunk))
RECURSIVE FreshRegionsUpTo(_)
FreshRegionsUpTo(k) == IF k = 0 THEN <<>> ELSE FreshRegionsUpTo(k - 1) \o FreshRegion(k)

\* C17: when chunkText has returned, every character position of the text lies
\* in a window, consecutive windows overlap or abut, and the chunks' regions
\* that do not overlap the previous window, concatenated in order, are the text.
C17_ChunksReconstructText ==
    chunkPc = "returned" =>
        /\ \A p \in 0..(Len(chunkInput) - 1) :
              \E k \in 1..Len(windows) :
                  windows[k].position <= p /\ p < windows[k].chunkEnd
        /\ \A k \in 1..(Len(windows) - 1) : windows[k + 1].position <= windows[k].chunkEnd
        /\ FreshRegionsUpTo(Len(windows)) = chunkInput

\* C14: every embedding in the store sits at the index of the chunk it was
\* computed for, and so does every vector of the similarity index.
C14_StoreAndIndexAligned ==
    /\ \A i \in 1..Len(m_embeddings) :
          m_embeddings[i] # NoEmbedding => m_embeddings[i].ofChunk = i - 1
    /\ \A i \in 1..Len(m_index.vectors) : m_index.vectors[i].ofChunk = i - 1

\* the signals emitted for the retrieveContext call q
SignalsOf(q) ==
    {i \in 1..Len(ragSignals) :
        ragSignals[i].signal \in {"queryError", "contextRetrieved"} /\ ragSignals[i].query = q}

\* C15: a retrieveContext call made when no chunk has been ingested, or when no
\* embedding has completed, is answered by queryError alone (no
\* contextRetrieved ever), and no embedding request is issued for it.
C15_UnreadyQueryIsAnError ==
    \A q \in 1..Len(ragQueries) :
        (ragQueries[q].chunksThen = 0 \/ ragQueries[q].completedThen = 0) =>
            /\ Cardinality(SignalsOf(q)) = 1
            /\ \A i \in SignalsOf(q) :
                  /\ ragSignals[i].signal = "queryError"
                  /\ ragSignals[i].error \in {"No documents ingested yet",
                                              "Embeddings not ready yet"}
            /\ ~\E reply \in ragReplies : reply.kind = "query" /\ reply.query = q
\* retrieveContext was called with chunks ingested and no embedding completed
C15_QueriedBeforeAnyEmbedding ==
    \E q \in 1..Len(ragQueries) :
        /\ ragQueries[q].chunksThen > 0
        /\ ragQueries[q].completedThen = 0
        /\ SignalsOf(q) # {}

\* the squared distance between the query of call q and the chunk at index idx
QueryDistance(q, idx) ==
    SquaredDistance(EmbeddingOf(m_chunks[idx + 1].text), EmbeddingOf(ragQueries[q].prompt))

\* C16: a query made and answered when the embeddings of all ingested chunks
\* have completed delivers min(topK, number of chunks) texts, each of a
\* different chunk, in ascending order of squared distance to the query, and no
\* chunk left out is nearer than one delivered.
C16_NearestChunksDelivered ==
    \A i \in 1..Len(ragSignals) :
        (/\ ragSignals[i].signal = "contextRetrieved"
         /\ ragQueries[ragSignals[i].query].completedThen
                = ragQueries[ragSignals[i].query].chunksThen
         /\ ragSignals[i].chunksThen = ragQueries[ragSignals[i].query].chunksThen) =>
            LET q == ragSignals[i].query
                found == ragSignals[i].indices
                n == ragSignals[i].chunksThen
            IN  /\ Len(ragSignals[i].contexts) = qMin(ragQueries[q].topK, n)
                /\ \A a, b \in 1..Len(found) : a # b => found[a] # found[b]
                /\ \A a \in 1..(Len(found) - 1) :
                      QueryDistance(q, found[a]) <= QueryDistance(q, found[a + 1])
                /\ \A a \in 1..Len(found), c \in 0..(n - 1) :
                      (\A b \in 1..Len(found) : found[b] # c) =>
                          QueryDistance(q, found[a]) <= QueryDistance(q, c)

\* the number of characters of a text that belong to a set
CountIn(text, set) == Cardinality({i \in 1..Len(text) : text[i] \in set})

\* C18: pruning returns the longest suffix of the history whose summed cost
\* (estimate + 20 per message) fits the remaining budget, 80% of the window
\* minus the estimates of system prompt and current message minus 200, and the
\* empty history when that budget is not positive.
SuffixOf(history, k) == SubSeq(history, Len(history) - k + 1, Len(history))
RECURSIVE CostOf(_)
CostOf(messages) ==
    IF messages = <<>> THEN 0
    ELSE estimateTokens(Head(messages).content) + 20 + CostOf(Tail(messages))
RemainingBudget ==
    (fnArgs.contextWindowSize * 8) \div 10
        - TokensOf(SystemPromptChars, SystemPromptSpaces)
        - estimateTokens(fnArgs.currentUserMessage) - 200
C18_LongestFittingSuffixKept ==
    (fnName = "pruneMessageHistoryForContext" /\ fnResult.returned) =>
        LET fitting == {k \in 0..Len(fnArgs.history) :
                            CostOf(SuffixOf(fnArgs.history, k)) <= RemainingBudget}
        IN  IF RemainingBudget <= 0 THEN fnResult.value = <<>>
            ELSE /\ Len(fnResult.value) \in fitting
                 /\ \A k \in fitting : k <= Len(fnResult.value)
                 /\ fnResult.value = SuffixOf(fnArgs.history, Len(fnResult.value))
\* pruning returned a history that kept a newer message and dropped an older
\* one that would have fitted by itself
C18_HistoryPartlyKept ==
    /\ fnName = "pruneMessageHistoryForContext"
    /\ fnResult.returned
    /\ 0 < Len(fnResult.value)
    /\ Len(fnResult.value) + 1 < Len(fnArgs.history)
    /\ CostOf(<<fnArgs.history[1]>>) + CostOf(fnResult.value) <= RemainingBudget

\* C19 as stated: the estimate is the text length divided by 4, rounded up,
\* plus the number of whitespace characters divided by 10, rounded down.
C19_QuarterRoundedUp ==
    (fnName = "estimateTokens" /\ fnResult.returned) =>
        fnResult.value = (Len(fnArgs.text) + 3) \div 4
                             + CountIn(fnArgs.text, {" ", NL, "\t"}) \div 10
\* C19: the estimate is the text length divided by 4 plus the number of spaces
\* and line ends divided by 10, both rounded down; the empty text estimates to 0.
C19_QuarterAndTenthRoundedDown ==
    (fnName = "estimateTokens" /\ fnResult.returned) =>
        fnResult.value = Len(fnArgs.text) \div 4 + CountIn(fnArgs.text, {" ", NL}) \div 10
\* a text whose length is no multiple of 4 and which holds at least 10
\* spaces or line ends has been estimated
C19_OddLengthManySpaces ==
    /\ fnName = "estimateTokens"
    /\ fnResult.returned
    /\ Len(fnArgs.text) % 4 # 0
    /\ CountIn(fnArgs.text, {" ", NL}) >= 10

\* C20: registerTool returns false and leaves the registry as it was when the
\* definition has an empty name or description, is Local without an invoker or
\* is HTTP/SSE without a URL; otherwise it returns true, the registry holds the
\* new definition under its name and every other entry is as before.
C20_RegistryHoldsValidDefinitions ==
    \A c \in 1..Len(registerCalls) :
        LET call == registerCalls[c]
            invalid == \/ call.tool.name = ""
                       \/ call.tool.description = ""
                       \/ (call.tool.toolType = "Local" /\ ~call.tool.function)
                       \/ (call.tool.toolType \in {"HTTP", "SSE"} /\ call.tool.networkUrl = "")
        IN  IF invalid
            THEN ~call.returned /\ call.after = call.before
            ELSE /\ call.returned
                 /\ call.after[call.tool.name] = call.tool
                 /\ \A name \in DOMAIN call.before :
                       name # call.tool.name => call.after[name] = call.before[name]
                 /\ DOMAIN call.after = DOMAIN call.before
\* a registered definition was replaced by a different one of the same name
C20_DefinitionReplaced ==
    \E c \in 1..Len(registerCalls) :
        /\ registerCalls[c].returned
        /\ registerCalls[c].before[registerCalls[c].tool.name] # NoTool
        /\ registerCalls[c].before[registerCalls[c].tool.name] # registerCalls[c].tool

\* the registry calls of one operation that returned
CallsOf(op) == SelectSeq(registryCalls, LAMBDA c : c.op = op)
IsNetworked(tool) == tool.toolType \in {"HTTP", "SSE"}

\* C21: clearNetworkedTools removes every HTTP and every SSE tool, leaves every
\* other entry of the registry (the Local tools) as it was, and returns the
\* number of tools it removed.
C21_ClearRemovesNetworkedOnly ==
    \A c \in 1..Len(CallsOf("clearNetworkedTools")) :
        LET call == CallsOf("clearNetworkedTools")[c]
            networked == {name \in DOMAIN call.before : IsNetworked(call.before[name])}
        IN  /\ DOMAIN call.after = DOMAIN call.before
            /\ \A name \in networked : call.after[name] = NoTool
            /\ \A name \in DOMAIN call.before \ networked :
                   call.after[name] = call.before[name]
            /\ call.returned = Cardinality(networked)
\* a registry holding a Local, an HTTP and an SSE tool was cleared
C21_MixedRegistryCleared ==
    \E c \in 1..Len(CallsOf("clearNetworkedTools")) :
        LET before == CallsOf("clearNetworkedTools")[c].before
        IN  \A toolType \in {"Local", "HTTP", "SSE"} :
                \E name \in DOMAIN before : before[name].toolType = toolType

\* a round-trip that succeeded: the reply finished without a transport error
\* inside the 5 s and carried a JSON object without an error member
RoundTripSucceeded(end) == end.how = "finished" /\ ResponseDocument(end) = "result"

\* C22: tools/list is sent only after initialize succeeded, and when either
\* round-trip fails (transport error, timeout, malformed reply, JSON-RPC error)
\* discovery returns -1 and leaves the registry as it was before the call.
C22_FailedRoundTripAbortsDiscovery ==
    \A c \in 1..Len(CallsOf("discover")) :
        LET call == CallsOf("discover")[c]
            initFailed == call.args.initEnd.how # "none"
                          /\ ~RoundTripSucceeded(call.args.initEnd)
            listFailed == call.args.listSent /\ ~RoundTripSucceeded(call.args.listEnd)
        IN  /\ call.args.listSent => RoundTripSucceeded(call.args.initEnd)
            /\ (initFailed \/ listFailed) =>
                   (call.returned = -1 /\ call.after = call.before)

\* the names of the entries of a tools/list answer that carry a name
ListedNames(tools) ==
    {tools[i].name : i \in {j \in 1..Len(tools) : tools[j].isObject /\ tools[j].name # ""}}

\* C23: when both round-trips succeed the returned count is the number of tools
\* discovery registered; entries with an empty name are skipped, every other
\* entry is afterwards an HTTP tool bound to the server URL, the rest of the
\* registry is as before, and an empty list returns 0.
C23_CountIsToolsRegistered ==
    \A c \in 1..Len(CallsOf("discover")) :
        LET call == CallsOf("discover")[c]
            names == ListedNames(call.args.tools)
        IN  (RoundTripSucceeded(call.args.initEnd) /\ call.args.listSent
             /\ RoundTripSucceeded(call.args.listEnd)) =>
                /\ call.returned = Cardinality(names)
                /\ \A name \in names :
                       /\ call.after[name].toolType = "HTTP"
                       /\ call.after[name].networkUrl = call.args.serverUrl
                /\ \A name \in DOMAIN call.before \ names :
                       call.after[name] = call.before[name]
                /\ call.args.tools = <<>> => call.returned = 0

\* the tools of a registration sequence that reach the threshold for a response:
\* at least one key, and at least 70% of the keys, are keys of the tool
ReachesThreshold(name, keys) ==
    LET matched == Cardinality(keys \cap ParametersOf(name))
    IN  matched >= 1 /\ 10 * matched >= 7 * Cardinality(keys)
Reaching(registered, keys) ==
    {i \in 1..Len(registered) : ReachesThreshold(registered[i], keys)}
\* a returned application of processToolCalls, tools enabled, to a response that
\* is one JSON object without the marker
HeuristicApplied ==
    /\ fnName = "processToolCalls"
    /\ fnResult.returned
    /\ fnArgs.toolsEnabled
    /\ fnArgs.response.kind = "object"
RankOf(name) == CHOOSE i \in 1..Len(NamesAscending) : NamesAscending[i] = name

\* C24 as stated: an object with name and parameters fields is a call to that
\* name; otherwise the call goes to the earliest-registered tool that reaches
\* the threshold; when none does, no call is detected.
C24_EarliestRegisteredMatch ==
    HeuristicApplied =>
        LET keys == fnArgs.response.keys
            reaching == Reaching(fnArgs.registered, keys)
        IN  IF "name" \in keys /\ "parameters" \in keys
            THEN fnResult.value = Call(fnArgs.response.name)
            ELSE IF reaching = {} THEN fnResult.value = NoCall
            ELSE fnResult.value =
                     Call(fnArgs.registered[CHOOSE i \in reaching :
                                                \A j \in reaching : i <= j])
\* C24: an object with name and parameters fields whose name is a non-empty
\* string is a call to that name; otherwise the call goes to the tool that
\* reaches the threshold and whose name comes first in ascending name order
\* (the order of the tools array); when none does, no call is detected.
C24_FirstByNameMatch ==
    HeuristicApplied =>
        LET keys == fnArgs.response.keys
            reaching == Reaching(fnArgs.registered, keys)
        IN  IF "name" \in keys /\ "parameters" \in keys /\ fnArgs.response.name # ""
            THEN fnResult.value = Call(fnArgs.response.name)
            ELSE IF reaching = {} THEN fnResult.value = NoCall
            ELSE fnResult.value =
                     Call(fnArgs.registered[
                              CHOOSE i \in reaching :
                                  \A j \in reaching :
                                      RankOf(fnArgs.registered[i])
                                          <= RankOf(fnArgs.registered[j])])
\* two registered tools reached the threshold and the call went to the one
\* registered later
C24_LaterRegisteredToolChosen ==
    /\ HeuristicApplied
    /\ fnResult.value.detected
    /\ \E i, j \in Reaching(fnArgs.registered, fnArgs.response.keys) :
           i < j /\ fnResult.value.toolName = fnArgs.registered[j]

\* ---- the session of an LLMClient
\* the effects of one step of the client (effects starts empty in each handler)
NewEffects == 1..Len(effects')
\* the reply with this id, as it stood before the step
ReplyBefore(id) == {r \in net : r.id = id}
\* C25: once a native tool call was detected in a chunk of an exchange, no
\* tokenReceived is emitted for that exchange any more.
C25_NoTokenAfterNativeToolCall ==
    [][\A i \in NewEffects :
           effects'[i].name = "tokenReceived" =>
               \A r \in ReplyBefore(effects'[i].about) : r.toolCalls = 0]_vars

\* what one step emitted, in order
Emitted == effects'
IsTokenAbout(id, e) == e.what = "emit" /\ e.name = "tokenReceived" /\ e.about = id
RECURSIVE TokenArgs(_, _)
TokenArgs(id, es) ==
    IF es = <<>> THEN <<>>
    ELSE (IF IsTokenAbout(id, Head(es)) THEN <<Head(es).arg>> ELSE <<>>)
             \o TokenArgs(id, Tail(es))
\* the tokens emitted for a reply up to and including this step
TokensEmittedFor(r) == r.tokens \o TokenArgs(r.id, Emitted)
\* a tool call was detected in the exchange of this reply, this step included
ToolCallDetectedIn(r) ==
    \/ r.toolCalls > 0
    \/ \E i \in NewEffects :
           effects'[i].name = "toolCallRequested" /\ effects'[i].about = r.id
ResponseEmittedFor(r) ==
    \E i \in NewEffects : effects'[i].name = "responseReceived" /\ effects'[i].about = r.id
\* the step ended the exchange of the current reply without an error, a retry
\* or a timeout
CompletesSuccessfully(r) ==
    /\ r.id = m_currentReply
    /\ m_currentReply' = 0
    /\ \A q \in net' : q.id # r.id
    /\ \A i \in NewEffects : effects'[i].name \notin {"errorOccurred", "retryAttempt"}
\* C26: a successfully completed exchange emits responseReceived exactly when
\* no tool call was detected in it; an emitted response is the concatenation
\* of the tokens emitted for the exchange, and it is appended to the history
\* only under the native dialect.
C26_ResponseIffNoToolCall ==
    [][\A r \in net :
           /\ CompletesSuccessfully(r) =>
                  (ResponseEmittedFor(r) <=> ~ToolCallDetectedIn(r))
           /\ \A i \in NewEffects :
                  effects'[i].name = "responseReceived" /\ effects'[i].about = r.id =>
                      /\ effects'[i].arg = TokensEmittedFor(r)
                      /\ m_messageHistory' # m_messageHistory =>
                             /\ m_toolCallFormat = "native"
                             /\ m_messageHistory' =
                                    Append(m_messageHistory,
                                           Message("assistant", effects'[i].arg, FALSE))]_vars

IsPrefix(a, b) == Len(a) <= Len(b) /\ SubSeq(b, 1, Len(a)) = a
\* C27: between two clearConversationHistory calls the history only grows at
\* its end: every step that is not a clear leaves the messages already there
\* in place, unchanged and in order.
C27_HistoryOnlyAppended ==
    [][historyClears' = historyClears => IsPrefix(m_messageHistory, m_messageHistory')]_vars
\* after a clear the history grew by an assistant tool call and a folded tool
\* result
C27_HistoryGrewAfterClear ==
    /\ historyClears = 1
    /\ Len(m_messageHistory) >= 2
    /\ m_messageHistory[Len(m_messageHistory) - 1] = Message("assistant", <<>>, TRUE)
    /\ m_messageHistory[Len(m_messageHistory)].role = "user"

\* C28: outside the native dialect the history stays empty and no request
\* carries a messages array.
C28_NoHistoryOutsideNative ==
    m_toolCallFormat # "native" =>
        /\ m_messageHistory = <<>>
        /\ \A i \in 1..Len(effects) :
               effects[i].what = "post" /\ effects[i].name # "show" =>
                   effects[i].arg.messages = <<>>

\* C29: a request is built with the dialect detected for the model it names:
\* whenever a prompt or tool-result request is posted, the dialect in use was
\* detected by a probe of the current model.
C29_DialectOfCurrentModel ==
    \A i \in 1..Len(effects) :
        effects[i].what = "post" /\ effects[i].name # "show" => detectedFor = m_model

\* ---- the dimensionality of the index
StoredEmbeddings == {i \in 1..Len(m_embeddings) : m_embeddings[i] # NoEmbedding}
\* C30: the first embedding fixes the dimensionality; a response of another
\* dimensionality is not added, so every stored vector has the fixed
\* dimensionality and the index holds one vector per accepted response.
C30_StoredVectorsHaveFixedDimension ==
    m_index.exists =>
        /\ \A i \in StoredEmbeddings : Len(m_embeddings[i].vec) = m_embeddingDimension
        /\ \A i \in 1..Len(m_index.vectors) :
               \E j \in StoredEmbeddings : m_embeddings[j] = m_index.vectors[i]
        /\ haveFaiss => Len(m_index.vectors) = EmbeddingsCompleted(RAG)

\* ---- the dialect a probe yields
MentionsTools(text) == Contains(text, "tool") \/ Contains(text, "function")
\* C31: a successful probe yields the native dialect exactly when "tool" or
\* "function" occurs in the template, the modelfile or the details, the three
\* texts alike, and the prompt dialect otherwise.
C31_NativeIffMarkerInAnyText ==
    (fnName = "handleModelInfoReply" /\ fnResult.returned) =>
        fnResult.value =
            IF \/ MentionsTools(fnArgs.modelfile)
               \/ MentionsTools(fnArgs.template)
               \/ MentionsTools(fnArgs.details)
            THEN "native" ELSE "prompt"

\* ---- the result an HTTP tool call delivers
\* the reports made for the reply to invocation c
ReportsAnswering(c) == {i \in 1..Len(reports) : reports[i].answers = c}
\* C32: a reply with a result member is reported by exactly one
\* toolCallCompleted, under the id executeToolCall returned and the tool name,
\* and the object delivered has a result entry equal to the reply's result.
C32_ResultMemberDelivered ==
    \A i \in 1..Len(reports) :
        reports[i].replied # "none" =>
            /\ reports[i].signal = "toolCallCompleted"
            /\ ReportsAnswering(reports[i].answers) = {i}
            /\ reports[i].id = returnedCalls[reports[i].answers].id
            /\ reports[i].name = returnedCalls[reports[i].answers].name
            /\ <<"result", reports[i].replied>> \in reports[i].result

\* ---- exchanges in flight together
\* the reply is in flight before the step and gone after it
Gone(r) == r \in net /\ \A q \in net' : q.id # r.id
IsFollowUp(r) == r.endpoint # "show" /\ r.data.shape = "toolresults"
NoResponseReported ==
    \E i \in NewEffects : /\ effects'[i].name = "errorOccurred"
                          /\ effects'[i].arg = "No response received from LLM"
\* C33: the follow-up exchange of a tool result ends only by its own events:
\* the step in which the original exchange (the one that requested the tool
\* call) ends neither removes the follow-up reply nor reports "no response"
\* while the follow-up is the current exchange.
C33_FollowUpRunsToItsOwnEnd ==
    [][\A f \in net :
           IsFollowUp(f) /\ f.id = m_currentReply =>
               \A q \in net :
                   (q.id # f.id /\ q.toolCalls > 0 /\ Gone(q)) =>
                       ~Gone(f) /\ ~NoResponseReported]_vars

\* C34: the events of a superseded exchange leave the current exchange alone:
\* a step in which a superseded reply ends neither removes the current reply
\* nor emits a response or an error in its place, and only the current
\* reply's data reaches the response buffer.
C34_SupersededLeavesCurrentAlone ==
    [][\A c \in net :
           c.id = m_currentReply =>
               /\ \A q \in net :
                      (q.id # c.id /\ q.endpoint # "show" /\ Gone(q)) =>
                          /\ ~Gone(c)
                          /\ m_currentReply' = m_currentReply
               /\ \A q \in net :
                      (q.id # c.id /\ q.endpoint # "show"
                       /\ \E p \in net' : p.id = q.id /\ p.delivered > q.delivered) =>
                          m_fullResponse' = m_fullResponse]_vars

\* C35: a retry resends, to the same endpoint, the payload of the exchange
\* whose failure scheduled it.
C35_RetryResendsFailedPayload ==
    [][\A i \in NewEffects :
           effects'[i].what = "fired" =>
               \A j \in NewEffects :
                   effects'[j].what = "post" =>
                       /\ effects'[j].arg = effects'[i].arg.data
                       /\ effects'[j].name = effects'[i].arg.endpoint]_vars

TimedOutReported ==
    \E i \in NewEffects : /\ effects'[i].name = "errorOccurred"
                          /\ effects'[i].arg = "Request timed out"
\* the 90 s timer of this reply fired in the step and the reply stayed in flight
TimerOfFired(r) ==
    r \in net /\ r.timeout /\ \E q \in net' : q.id = r.id /\ ~q.timeout
\* C39: the timeout armed for an exchange aborts that exchange only: when the
\* timer of an earlier reply fires, no reply posted later (in flight for less
\* than the 90 s) is removed and no timeout is reported for it.
C39_TimeoutAbortsOwnExchange ==
    [][\A r \in net :
           TimerOfFired(r) =>
               \A q \in net : q.id > r.id => ~Gone(q) /\ ~TimedOutReported]_vars

\* C40: under the native dialect the history holds whole turns: an assistant
\* message stands behind the user message of its turn, or behind the
\* assistant's tool call of that turn; none stands first or behind another
\* assistant reply.
C40_AssistantFollowsItsUser ==
    m_toolCallFormat = "native" =>
        \A i \in 1..Len(m_messageHistory) :
            m_messageHistory[i].role = "assistant" =>
                /\ i > 1
                /\ \/ m_messageHistory[i - 1].role = "user"
                   \/ m_messageHistory[i - 1].tool_calls

\* ---- calls of an SSE tool whose stream is open
SseToolNames == {tool.name : tool \in {t \in ToolCatalog : t.toolType = "SSE"}}
\* an event arrived in this step on the client's stream, before any terminal event
EventArrivedOn(client) ==
    /\ sseDelivered' = sseDelivered + 1
    /\ m_sseClients[client].m_currentReply
    /\ ~m_sseClients[client].sawTerminal
\* C36: outcomes of an SSE tool stay with their call: every report carries
\* the id of the call whose stream it is about (the end of an earlier stream
\* is never reported under the id of the call that closed it), and an event
\* of an open stream is reported under the id of the call that opened it.
C36_SseOutcomesStayWithTheirCall ==
    [][/\ \A i \in 1..Len(reports') :
              reports'[i].name \in SseToolNames => reports'[i].owner = reports'[i].answers
       /\ \A client \in SseToolNames :
              EventArrivedOn(client) =>
                  /\ Len(reports') = Len(reports) + 1
                  /\ reports'[Len(reports')].owner = m_sseClients[client].opener]_vars

\* the invocations of executeToolCall for this SSE tool, and the first of them
SseCallsOf(name) ==
    {c \in 1..Len(returnedCalls) :
        returnedCalls[c].name = name /\ returnedCalls[c].kind = "SSE"}
IsFirstSseCall(c) ==
    /\ c \in 1..Len(returnedCalls)
    /\ c \in SseCallsOf(returnedCalls[c].name)
    /\ \A d \in SseCallsOf(returnedCalls[c].name) : c <= d
\* C37: the first executeToolCall of an SSE tool, the one that creates the
\* tool's stream client, opens the stream: no failure is reported for it from
\* inside that invocation.
C37_FirstSseCallOpensStream ==
    \A i \in 1..Len(reports) :
        (IsFirstSseCall(reports[i].owner) /\ reports[i].during = reports[i].owner) =>
            reports[i].signal # "toolCallFailed"

\* a reply for a chunk ingested before the last clearDocuments
SentBeforeClear(reply) ==
    clearedAt # <<>> /\ reply.reply < clearedAt[Len(clearedAt)]
\* the reply this step handles, if it handles one
HandledLate(reply) ==
    /\ reply \in ragReplies
    /\ reply \notin ragReplies'
    /\ SentBeforeClear(reply)
\* C38: clearDocuments leaves no chunks, no embeddings and an empty index, and
\* an embedding reply that arrives for a chunk ingested before the clear
\* changes neither the embedding store nor the index.
C38_ClearOutlivesLateReplies ==
    [][/\ Len(clearedAt') > Len(clearedAt) =>
              /\ m_chunks' = <<>>
              /\ m_embeddings' = <<>>
              /\ m_index'.vectors = <<>>
       /\ \A reply \in ragReplies :
              HandledLate(reply) =>
                  /\ m_embeddings' = m_embeddings
                  /\ m_index' = m_index]_vars

====
